---- MODULE Spec2Model ----
(***************************************************************************)
(* Model of claude-terminal: the orchestrator (src/app.rs), the subprocess *)
(* supervisor (src/claude/process.rs), the inbound bus (the mpsc channel   *)
(* of App::new) and the stream decoder (src/claude/parser.rs).             *)
(*                                                                         *)
(* A Rust String is a sequence of string tokens; push_str and format! are  *)
(* concatenation (\o).  Option<T> is a sequence of length 0 (None) or 1    *)
(* (Some).  Timestamps of conversation entries are not modelled.           *)
(*                                                                         *)
(* Spec       the orchestrator, its supervisors, their stdout readers and  *)
(*            the bus, in runs where the claude executable can be launched *)
(*            and written to (the `?` error exits of send_to_claude are    *)
(*            outside this specification, as are the input line editor,    *)
(*            the shell, voice and peer-session collaborators).            *)
(* SpecParser one StreamParser fed an arbitrary sequence of lines.         *)
(* The other specifications take the same state through other parts of the *)
(* program: SpecEditor and SpecBacklog (input line, voice), SpecSpawn and   *)
(* SpecCollab (the `?` error exits of the handlers), SpecInterrupt (the     *)
(* await inside abort), SpecMailbox and SpecShutdown (peer mailbox, the     *)
(* producers after App::run has returned), SpecContext (shell results in  *)
(* the message of a turn), SpecCapture (audio capture threads), SpecDrain  *)
(* (Spec's turns under fair scheduling) and SpecWords (src/input_utils.rs).*)
(***************************************************************************)
EXTENDS Integers, Sequences, FiniteSets, TLC

VARIABLES
    messages,          \* App.messages: Vec<ConversationEntry>
    message_queue,     \* App.message_queue: Vec<String>
    claude_busy,       \* App.claude_busy
    streaming_buffer,  \* App.streaming_buffer
    claude_process,    \* App.claude_process: Option<ClaudeProcess> (a process id)
    status_message,    \* App.status_message: Option<String>
    token_usage,       \* App.token_usage
    procs,             \* every ClaudeProcess ever created: child, aborted flag, reader task
    bus,               \* the mpsc channel: AppMessages sent and not yet received
    parser,            \* SpecParser: the StreamParser under test
    fed,               \* history of parse_line calls (line, state before/after, events)
    discarded,         \* history: text tokens that were in streaming_buffer at an interrupt
    turn_failed,       \* history: a ClaudeError was applied and the user has not submitted since
    keys,              \* history: Enter and Ctrl-C key presses handled so far
    shells,            \* the tasks spawned by BashExecutor::execute: command, position
    model,             \* App.model
    continue_session,  \* App.continue_session
    resume_session,    \* App.resume_session: Option<String>
    input,             \* App.input: the input line, a sequence of characters
    cursor_position,   \* App.cursor_position: 0..len(input)
    input_mode,        \* App.input_mode: "Normal" or "Recording"
    voice,             \* VoiceRecorder: recording flag, samples, transcription tasks
    run_result,        \* None while App::run loops, then Some("Ok") or Some("Err")
    awaiting,          \* the await the orchestrator's current step is suspended in, if any
    mailbox,           \* this session's mailbox file: None, or Some(lines)
    poller,            \* the task of SessionManager::start_message_polling
    peer,              \* a peer session that calls send_message for this session
    word               \* SpecWords: a call of delete_word_backward, arguments and result

vars == <<messages, message_queue, claude_busy, streaming_buffer, claude_process,
          status_message, token_usage, procs, bus, parser, fed, discarded,
          turn_failed, keys, shells, model, continue_session, resume_session,
          input, cursor_position, input_mode, voice, run_result, awaiting,
          mailbox, poller, peer, word>>

\* the input line, the voice recorder, the loop's own state and the mailbox
sideVars == <<input, cursor_position, input_mode, voice, run_result, awaiting,
              mailbox, poller, peer, word>>

appVars == <<messages, message_queue, claude_busy, streaming_buffer, claude_process,
             status_message, token_usage, procs, bus, discarded, turn_failed,
             keys, shells, model, continue_session, resume_session, sideVars>>

(***************************************************************************)
(* Bounds                                                                  *)
(***************************************************************************)
MaxKeys == 3    \* Enter and Ctrl-C key presses of one run
MaxLines == 1   \* stdout lines read from the subprocesses of one run
MaxFeed == 4    \* lines fed to the parser in SpecParser
MaxStream == 3  \* stdout lines read from the subprocesses in SpecStream
MaxAborts == 2  \* abort calls on one supervisor in SpecSupervisor
MaxBusLines == 101  \* stdout lines read from the subprocess in SpecBus
MaxEditKeys == 6    \* key presses of one run in SpecEditor
MaxPeerSends == 2   \* send_message calls of the peer session

None == <<>>
Some(v) == <<v>>

Range(s) == {s[i] : i \in DOMAIN s}

RECURSIVE Concat(_)
Concat(ss) == IF ss = <<>> THEN <<>> ELSE Head(ss) \o Concat(Tail(ss))

(***************************************************************************)
(* serde_json values and their pretty-printed form                         *)
(***************************************************************************)
JsonNull == [json |-> "null"]
JsonString(s) == [json |-> "string", s |-> s]
JsonObject(members) == [json |-> "object", members |-> members]

RECURSIVE pretty_members(_)
pretty_members(ms) ==
    IF ms = <<>> THEN <<>>
    ELSE <<" ", " ", "\"", ms[1].k, "\"", ":", " ", ms[1].v>>
         \o (IF Len(ms) > 1 THEN <<",", "\n">> ELSE <<>>)
         \o pretty_members(Tail(ms))

\* mutant: an object without members prints as the empty string
to_string_pretty_empty(v) ==
    CASE v.json = "null" -> <<"n", "u", "l", "l">>
      [] v.json = "string" -> <<"\"">> \o v.s \o <<"\"">>
      [] v.json = "object" ->
            IF v.members = <<>> THEN <<>>
            ELSE <<"{", "\n">> \o pretty_members(v.members) \o <<"\n", "}">>

\* serde_json::to_string_pretty(&value).unwrap_or_default()
to_string_pretty(v) ==
    CASE v.json = "null" -> <<"n", "u", "l", "l">>
      [] v.json = "string" -> <<"\"">> \o v.s \o <<"\"">>
      [] v.json = "object" ->
            IF v.members = <<>> THEN <<"{", "}">>
            ELSE <<"{", "\n">> \o pretty_members(v.members) \o <<"\n", "}">>

\* value.as_str(): Some(s) for a JSON string, None otherwise
as_str(v) == IF v.json = "string" THEN Some(v.s) ELSE None

(***************************************************************************)
(* StreamEvent (src/claude/types.rs)                                       *)
(***************************************************************************)
Text(t) == [type |-> "Text", text |-> t]
ToolUse(name, tool_input) == [type |-> "ToolUse", name |-> name, input |-> tool_input]
ToolResult(name, result) == [type |-> "ToolResult", name |-> name, result |-> result]
Thinking(t) == [type |-> "Thinking", text |-> t]
Usage(u) == [type |-> "Usage", input_tokens |-> u.input_tokens,
             output_tokens |-> u.output_tokens,
             cache_read_tokens |-> u.cache_read_input_tokens,
             cache_write_tokens |-> u.cache_creation_input_tokens]

(***************************************************************************)
(* One line of the subprocess's stdout.  A line is blank, not JSON, or the *)
(* JSON text of a record; a record, content block or delta is a TLA+       *)
(* record carrying the serde tag in `type`.  A tool_use block whose input  *)
(* member is absent has input = None.                                      *)
(***************************************************************************)
BlankLine == [line |-> "blank"]
NotJson == [line |-> "invalid"]
Json(rec) == [line |-> "json", record |-> rec]

TextBlock(t) == [type |-> "text", text |-> t]
ToolUseBlock(name, tool_input) == [type |-> "tool_use", name |-> name, input |-> tool_input]
ToolResultBlock(content) == [type |-> "tool_result", content |-> content]
ThinkingBlock(t) == [type |-> "thinking", thinking |-> t]

TextDelta(t) == [type |-> "text_delta", text |-> t]
InputJsonDelta(pj) == [type |-> "input_json_delta", partial_json |-> pj]
ThinkingDelta(t) == [type |-> "thinking_delta", thinking |-> t]

ContentBlockStart(block) == [type |-> "content_block_start", content_block |-> block]
ContentBlockDelta(delta) == [type |-> "content_block_delta", delta |-> delta]
ContentBlockStop == [type |-> "content_block_stop"]
Envelope(tag, content, usage) ==
    [type |-> tag, message |-> [content |-> content, usage |-> usage]]
MessageDelta(usage) == [type |-> "message_delta", usage |-> usage]
ResultRecord(subtype, result) == [type |-> "result", subtype |-> subtype, result |-> result]

\* a system record, and a record whose tag names no variant (#[serde(other)])
SystemRecord == [type |-> "system"]
UnknownRecord == [type |-> "ping"]

\* the serde tags of RawStreamEvent's named variants
RecordTags == {"system", "assistant", "user", "message_start",
               "content_block_start", "content_block_delta",
               "content_block_stop", "message_delta", "message_stop", "result"}

\* a user envelope that carries the result of a tool call
UserToolResult ==
    Envelope("user", Some(<<ToolResultBlock(JsonString(<<"ok">>))>>), None)

\* StreamParser::new(): Default
NewParser == [current_tool_name |-> None, current_tool_input |-> <<>>]

\* serde: does the content block deserialize into ContentBlock?  The fields of
\* a known variant are required (input: serde_json::Value has no default).
block_deserializes(block) ==
    block.type = "tool_use" => block.input # None

\* serde_json::from_str::<RawStreamEvent>(line): Some(record) or None on error
from_str(line) ==
    IF line.line # "json" THEN None
    ELSE LET rec == line.record IN
         CASE rec.type = "content_block_start" ->
                IF block_deserializes(rec.content_block) THEN Some(rec) ELSE None
           [] rec.type \in {"assistant", "user", "message_start"} ->
                IF rec.message.content = None
                   \/ \A i \in DOMAIN rec.message.content[1] :
                          block_deserializes(rec.message.content[1][i])
                THEN Some(rec) ELSE None
           [] OTHER -> Some(rec)

\* StreamParser::process_content_block
process_content_block(st, block) ==
    CASE block.type = "text" ->
            [parser |-> st, events |-> <<Text(block.text)>>]
      [] block.type = "tool_use" ->
            LET pretty == to_string_pretty(block.input[1]) IN
            IF pretty # <<>>
            THEN [parser |-> [current_tool_name |-> None, current_tool_input |-> <<>>],
                  events |-> <<ToolUse(block.name, pretty)>>]
            ELSE [parser |-> [current_tool_name |-> Some(block.name),
                              current_tool_input |-> pretty],
                  events |-> <<>>]
      [] block.type = "tool_result" ->
            LET result == IF as_str(block.content) # None
                          THEN as_str(block.content)[1]
                          ELSE to_string_pretty(block.content) IN
            [parser |-> st, events |-> <<ToolResult(<<"tool">>, result)>>]
      [] block.type = "thinking" ->
            [parser |-> st, events |-> <<Thinking(block.thinking)>>]
      [] OTHER -> [parser |-> st, events |-> <<>>]

\* the `for block in content` loop of process_event
RECURSIVE process_content_blocks(_, _)
process_content_blocks(st, blocks) ==
    IF blocks = <<>> THEN [parser |-> st, events |-> <<>>]
    ELSE LET r1 == process_content_block(st, Head(blocks))
             r2 == process_content_blocks(r1.parser, Tail(blocks))
         IN [parser |-> r2.parser, events |-> r1.events \o r2.events]

\* StreamParser::process_event
process_event(st, event) ==
    CASE event.type \in {"assistant", "message_start"} ->
            LET r == IF event.message.content # None
                     THEN process_content_blocks(st, event.message.content[1])
                     ELSE [parser |-> st, events |-> <<>>]
                u == IF event.message.usage # None
                     THEN <<Usage(event.message.usage[1])>> ELSE <<>>
            IN [parser |-> r.parser, events |-> r.events \o u]
      [] event.type = "content_block_start" ->
            process_content_block(st, event.content_block)
      [] event.type = "content_block_delta" ->
            CASE event.delta.type = "text_delta" ->
                    [parser |-> st, events |-> <<Text(event.delta.text)>>]
              [] event.delta.type = "input_json_delta" ->
                    [parser |-> [st EXCEPT !.current_tool_input =
                                               @ \o event.delta.partial_json],
                     events |-> <<>>]
              [] event.delta.type = "thinking_delta" ->
                    [parser |-> st, events |-> <<Thinking(event.delta.thinking)>>]
              [] OTHER -> [parser |-> st, events |-> <<>>]
      [] event.type = "content_block_stop" ->
            IF st.current_tool_name # None
            THEN [parser |-> [current_tool_name |-> None, current_tool_input |-> <<>>],
                  events |-> <<ToolUse(st.current_tool_name[1], st.current_tool_input)>>]
            ELSE [parser |-> st, events |-> <<>>]
      [] event.type = "message_delta" ->
            [parser |-> st,
             events |-> IF event.usage # None THEN <<Usage(event.usage[1])>> ELSE <<>>]
      [] event.type = "result" ->
            IF event.subtype = Some("tool_result") /\ event.result # None
            THEN LET result_str == IF as_str(event.result[1]) # None
                                   THEN as_str(event.result[1])[1]
                                   ELSE to_string_pretty(event.result[1]) IN
                 [parser |-> st, events |-> <<ToolResult(<<"tool">>, result_str)>>]
            ELSE [parser |-> st, events |-> <<>>]
      [] OTHER -> [parser |-> st, events |-> <<>>]

\* mutant: a line that is not a record resets the accumulator
parse_line_reset_on_error(st, line) ==
    IF line.line = "blank" THEN [parser |-> NewParser, events |-> <<>>]
    ELSE IF from_str(line) = None THEN [parser |-> NewParser, events |-> <<>>]
    ELSE process_event(st, from_str(line)[1])

\* StreamParser::parse_line: the new parser state and the events returned
parse_line(st, line) ==
    IF line.line = "blank" THEN [parser |-> st, events |-> <<>>]
    ELSE IF from_str(line) = None THEN [parser |-> st, events |-> <<>>]
    ELSE process_event(st, from_str(line)[1])

(***************************************************************************)
(* ClaudeProcess (src/claude/process.rs).  procs[p] is the p-th supervisor *)
(* created: the child's state, the aborted flag, what was written to its   *)
(* stdin, and its stdout reader task (position, StreamParser, lines read). *)
(* The stderr reader only logs and has no state here.  History: the calls  *)
(* of abort (aborts) and of child.kill()/start_kill() (kills), and whether *)
(* the supervisor was dropped.                                             *)
(***************************************************************************)
\* every supervisor is created for a submitted message
Pids == 1..MaxKeys

NoProcess == [state |-> "unspawned", aborted |-> FALSE, stdin |-> None,
              reader |-> "none", parser |-> NewParser, nread |-> 0,
              terminals |-> <<>>, args |-> <<>>,
              aborts |-> 0, kills |-> 0, dropped |-> FALSE, reaped |-> FALSE,
              send_errors |-> 0]

Spawned(ps) == {p \in DOMAIN ps : ps[p].state # "unspawned"}
Live(ps) == {p \in DOMAIN ps : ps[p].state = "running"}

\* mutant: the subprocess is always started with the default model
command_args_default_model(m, c, r) ==
    <<"--print", "--output-format", "stream-json",
      "--dangerously-skip-permissions", "--model", "sonnet">>
        \o (IF r # None THEN <<"--resume", r[1]>>
            ELSE IF c THEN <<"--continue">> ELSE <<>>)

\* the arguments ClaudeProcess::new gives the claude command
command_args(m, c, r) ==
    <<"--print", "--output-format", "stream-json",
      "--dangerously-skip-permissions", "--model", m>>
        \o (IF r # None THEN <<"--resume", r[1]>>
            ELSE IF c THEN <<"--continue">> ELSE <<>>)

\* ClaudeProcess::new: cmd.spawn() gives a running child with piped stdio
ClaudeProcess_new(ps, p, m, c, r) ==
    [ps EXCEPT ![p] = [NoProcess EXCEPT !.state = "running",
                                        !.args = command_args(m, c, r)]]

\* ClaudeProcess::send: write the message and a newline, close stdin, spawn
\* the stdout reader task with a fresh StreamParser
send(ps, p, message) ==
    [ps EXCEPT ![p].stdin = Some(message), ![p].reader = "loop",
               ![p].parser = NewParser]

\* mutant: the kill is requested but the child keeps running
kill_ineffective(ps, p) == [ps EXCEPT ![p].kills = @ + 1]

\* child.kill() / child.start_kill(): a child that already exited is unaffected
kill(ps, p) ==
    [ps EXCEPT ![p].state = IF @ = "running" THEN "killed" ELSE @,
               ![p].kills = @ + 1]

\* mutant: every abort kills, whatever the aborted flag says
abort_unguarded(ps, p) ==
    kill([ps EXCEPT ![p].aborts = @ + 1, ![p].aborted = TRUE], p)

\* ClaudeProcess::abort
abort(ps, p) ==
    LET called == [ps EXCEPT ![p].aborts = @ + 1] IN
    IF ~ps[p].aborted THEN kill([called EXCEPT ![p].aborted = TRUE], p) ELSE called

\* mutant: dropping a supervisor leaves its child running
drop_no_kill(ps, cp) ==
    IF cp # None THEN [ps EXCEPT ![cp[1]].dropped = TRUE] ELSE ps

\* Drop for ClaudeProcess, applied to the Option the orchestrator held
drop(ps, cp) ==
    IF cp # None THEN kill([ps EXCEPT ![cp[1]].dropped = TRUE], cp[1]) ELSE ps

(***************************************************************************)
(* AppMessage (src/app.rs)                                                 *)
(***************************************************************************)
ClaudeEvent(e) == [type |-> "ClaudeEvent", event |-> e]
ClaudeFinished == [type |-> "ClaudeFinished"]
ClaudeError(err) == [type |-> "ClaudeError", err |-> err]
BashOutput(output) == [type |-> "BashOutput", output |-> output]
BashFinished(exit_code) == [type |-> "BashFinished", exit_code |-> exit_code]
VoiceTranscription(text) == [type |-> "VoiceTranscription", text |-> text]
VoiceError(err) == [type |-> "VoiceError", err |-> err]
SessionMessage(from, message) ==
    [type |-> "SessionMessage", from |-> from, message |-> message]

\* mpsc::channel(100)
BusCapacity == 100

\* mutant: a send completes whatever the bus holds (an unbounded channel)
send_ready_always(b, n) == TRUE

\* tx.send(msg).await, n times: each send completes only when the channel has a
\* free slot, and suspends the sending task until then.  The receiver exists
\* as long as App::run has not returned.
send_ready(b, n) == run_result = None /\ Len(b) + n <= BusCapacity

(***************************************************************************)
(* App (src/app.rs)                                                        *)
(***************************************************************************)
Entry(role, content) == [role |-> role, content |-> content]
TextContent(t) == [variant |-> "Text", text |-> t]
ToolUseContent(name, tool_input) == [variant |-> "ToolUse", name |-> name, input |-> tool_input]
ToolResultContent(name, result) ==
    [variant |-> "ToolResult", name |-> name, result |-> result]
ThinkingContent(t) == [variant |-> "Thinking", text |-> t]
BashCommandContent(command, output, exit_code) ==
    [variant |-> "BashCommand", command |-> command, output |-> output,
     exit_code |-> exit_code]

\* the orchestrator's fields together with the supervisors and the bus
World == [messages |-> messages, message_queue |-> message_queue,
          claude_busy |-> claude_busy, streaming_buffer |-> streaming_buffer,
          claude_process |-> claude_process, status_message |-> status_message,
          token_usage |-> token_usage, procs |-> procs, bus |-> bus,
          shells |-> shells, model |-> model,
          continue_session |-> continue_session,
          resume_session |-> resume_session,
          input |-> input, cursor_position |-> cursor_position,
          input_mode |-> input_mode, voice |-> voice,
          run_result |-> run_result, awaiting |-> awaiting,
          mailbox |-> mailbox, poller |-> poller, peer |-> peer, word |-> word]

\* .rev().take(5) of build_context
ContextLookback == 5

\* format!("$ {}\n{}\n(exit code: {})", command, output, exit_code)
format_bash(c) ==
    <<"$ ">> \o c.command \o <<"\n">> \o c.output
        \o <<"\n(exit code: ", ToString(c.exit_code), ")">>

\* .join("\n\n")
RECURSIVE join(_)
join(ss) ==
    IF ss = <<>> THEN <<>>
    ELSE IF Len(ss) = 1 THEN ss[1]
    ELSE ss[1] \o <<"\n\n">> \o join(Tail(ss))

\* mutant: the entries are given newest first
build_context_newest_first(msgs) ==
    LET first == IF Len(msgs) > ContextLookback
                 THEN Len(msgs) - ContextLookback + 1 ELSE 1
        window == SubSeq(msgs, first, Len(msgs))
        recent_bash == SelectSeq(window, LAMBDA m : m.content.variant = "BashCommand")
        formatted == [i \in DOMAIN recent_bash |->
                         format_bash(recent_bash[Len(recent_bash) + 1 - i].content)]
    IN IF recent_bash = <<>> THEN <<>>
       ELSE <<"[Recent terminal activity]\n">> \o join(formatted) \o <<"\n">>

\* App::build_context: the BashCommand entries among the last 5, oldest first
build_context(msgs) ==
    LET first == IF Len(msgs) > ContextLookback
                 THEN Len(msgs) - ContextLookback + 1 ELSE 1
        window == SubSeq(msgs, first, Len(msgs))
        recent_bash == SelectSeq(window, LAMBDA m : m.content.variant = "BashCommand")
        formatted == [i \in DOMAIN recent_bash |-> format_bash(recent_bash[i].content)]
    IN IF recent_bash = <<>> THEN <<>>
       ELSE <<"[Recent terminal activity]\n">> \o join(formatted) \o <<"\n">>

\* mutant: the resume id is passed and kept
send_to_claude_keeps_resume(w, message) ==
    IF w.claude_busy
    THEN [w EXCEPT !.message_queue = Append(w.message_queue, message),
                   !.status_message = Some(<<"Queued (",
                                             ToString(Len(w.message_queue) + 1),
                                             " pending)">>)]
    ELSE LET msgs == Append(w.messages, Entry("User", TextContent(message)))
             context == build_context(msgs)
             p == Cardinality(Spawned(w.procs)) + 1
             full_message == IF context = <<>> THEN message
                             ELSE context \o <<"\n\n">> \o message
             created == ClaudeProcess_new(w.procs, p, w.model, w.continue_session,
                                          w.resume_session)
             started == send(created, p, full_message)
         IN [w EXCEPT !.messages = msgs,
                      !.claude_busy = TRUE,
                      !.streaming_buffer = <<>>,
                      !.procs = drop(started, w.claude_process),
                      !.claude_process = Some(p)]

\* mutant: the busy flag is not consulted
send_to_claude_ungated(w, message) ==
    LET msgs == Append(w.messages, Entry("User", TextContent(message)))
        p == Cardinality(Spawned(w.procs)) + 1
    IN [w EXCEPT !.messages = msgs, !.claude_busy = TRUE, !.streaming_buffer = <<>>,
                 !.procs = drop(send(ClaudeProcess_new(w.procs, p, w.model,
                                                       w.continue_session,
                                                       w.resume_session),
                                     p, message),
                                w.claude_process),
                 !.resume_session = None,
                 !.claude_process = Some(p)]

\* App::send_to_claude
send_to_claude(w, message) ==
    IF w.claude_busy
    THEN [w EXCEPT !.message_queue = Append(w.message_queue, message),
                   !.status_message = Some(<<"Queued (",
                                             ToString(Len(w.message_queue) + 1),
                                             " pending)">>)]
    ELSE LET msgs == Append(w.messages, Entry("User", TextContent(message)))
             context == build_context(msgs)
             p == Cardinality(Spawned(w.procs)) + 1
             full_message == IF context = <<>> THEN message
                             ELSE context \o <<"\n\n">> \o message
             created == ClaudeProcess_new(w.procs, p, w.model, w.continue_session,
                                          w.resume_session)
             started == send(created, p, full_message)
         IN [w EXCEPT !.messages = msgs,
                      !.claude_busy = TRUE,
                      !.streaming_buffer = <<>>,
                      !.resume_session = None,
                      !.procs = drop(started, w.claude_process),
                      !.claude_process = Some(p)]

\* App::run returns (Ok after a quit, Err when a `?` passed an error up) and
\* main drops the App: the supervisor it holds is dropped, and so is the
\* receiver of the bus
run_returns(w, result) ==
    [w EXCEPT !.run_result = Some(result),
              !.procs = drop(w.procs, w.claude_process),
              !.claude_process = None]

\* mutant: the orchestrator absorbs the error, reports it and goes on
propagate_absorbed(w) ==
    [w EXCEPT !.claude_busy = FALSE,
              !.status_message = Some(<<"Error">>)]

\* an Err(e) met by `?` in a handler: every caller up to App::run returns it
\* with `?` in turn (submit_input, handle_slash_command, handle_*_mode_key,
\* handle_key_event, handle_app_message and run itself)
propagate(w) == run_returns(w, "Err")

\* App::send_to_claude with the assistant idle when cmd.spawn() fails in
\* ClaudeProcess::new: the entry is pushed, the busy flag set, the buffer
\* cleared and the resume id taken before `?` returns the error
send_to_claude_spawn_fails(w, message) ==
    propagate([w EXCEPT !.messages = Append(w.messages,
                                            Entry("User", TextContent(message))),
                        !.claude_busy = TRUE,
                        !.streaming_buffer = <<>>,
                        !.resume_session = None])

\* App::send_to_claude with the assistant idle when the subprocess is spawned
\* and a write to its stdin fails in ClaudeProcess::send: `?` returns the
\* error before the reader task is spawned and before claude_process is
\* assigned, and the local supervisor is dropped
send_to_claude_write_fails(w, message) ==
    LET p == Cardinality(Spawned(w.procs)) + 1
        created == ClaudeProcess_new(w.procs, p, w.model, w.continue_session,
                                     w.resume_session)
    IN propagate([w EXCEPT !.messages = Append(w.messages,
                                               Entry("User", TextContent(message))),
                           !.claude_busy = TRUE,
                           !.streaming_buffer = <<>>,
                           !.resume_session = None,
                           !.procs = drop(created, Some(p))])

\* mutant: an empty streaming buffer is finalized into an entry too
finalize_streaming_buffer_always(w) ==
    [w EXCEPT !.messages = Append(w.messages,
                                  Entry("Assistant", TextContent(w.streaming_buffer))),
              !.streaming_buffer = <<>>]

\* `if !self.streaming_buffer.is_empty() { push(Assistant, take(buffer)) }`,
\* the same block in handle_claude_event (ToolUse) and in ClaudeFinished
finalize_streaming_buffer(w) ==
    IF w.streaming_buffer # <<>>
    THEN [w EXCEPT !.messages = Append(w.messages,
                                       Entry("Assistant", TextContent(w.streaming_buffer))),
                   !.streaming_buffer = <<>>]
    ELSE w

\* mutant: a text event replaces the streaming buffer
push_str_overwrite(buffer, text) == text

\* self.streaming_buffer.push_str(&text)
push_str(buffer, text) == buffer \o text

\* mutant: the tool entry is appended before the buffer is finalized
apply_tool_use_first(w, name, tool_input) ==
    finalize_streaming_buffer(
        [w EXCEPT !.messages =
            Append(w.messages, Entry("Tool", ToolUseContent(name, tool_input)))])

\* the StreamEvent::ToolUse arm of handle_claude_event
apply_tool_use(w, name, tool_input) ==
    LET w1 == finalize_streaming_buffer(w) IN
    [w1 EXCEPT !.messages =
        Append(w1.messages, Entry("Tool", ToolUseContent(name, tool_input)))]

\* mutant: the totals show the latest usage event only
add_usage_latest(total, event) ==
    [input_tokens |-> event.input_tokens,
     output_tokens |-> event.output_tokens,
     cache_read_tokens |-> event.cache_read_tokens,
     cache_write_tokens |-> event.cache_write_tokens]

\* the StreamEvent::Usage arm of handle_claude_event: four `+=` on u64 totals
\* (token counts stay far below 2^64)
add_usage(total, event) ==
    [input_tokens |-> total.input_tokens + event.input_tokens,
     output_tokens |-> total.output_tokens + event.output_tokens,
     cache_read_tokens |-> total.cache_read_tokens + event.cache_read_tokens,
     cache_write_tokens |-> total.cache_write_tokens + event.cache_write_tokens]

\* mutant: a ToolResult or Thinking event finalizes the streaming buffer first
handle_claude_event_finalizing(w, event) ==
    CASE event.type = "Text" ->
            [w EXCEPT !.streaming_buffer = push_str(w.streaming_buffer, event.text)]
      [] event.type = "ToolUse" -> apply_tool_use(w, event.name, event.input)
      [] event.type = "ToolResult" ->
            LET f == finalize_streaming_buffer(w) IN
            [f EXCEPT !.messages =
                Append(f.messages, Entry("Tool", ToolResultContent(event.name, event.result)))]
      [] event.type = "Thinking" ->
            LET f == finalize_streaming_buffer(w) IN
            [f EXCEPT !.messages =
                Append(f.messages, Entry("Assistant", ThinkingContent(event.text)))]
      [] event.type = "Usage" ->
            [w EXCEPT !.token_usage = add_usage(w.token_usage, event)]

\* App::handle_claude_event
handle_claude_event(w, event) ==
    CASE event.type = "Text" ->
            [w EXCEPT !.streaming_buffer = push_str(w.streaming_buffer, event.text)]
      [] event.type = "ToolUse" -> apply_tool_use(w, event.name, event.input)
      [] event.type = "ToolResult" ->
            [w EXCEPT !.messages =
                Append(w.messages, Entry("Tool", ToolResultContent(event.name, event.result)))]
      [] event.type = "Thinking" ->
            [w EXCEPT !.messages =
                Append(w.messages, Entry("Assistant", ThinkingContent(event.text)))]
      [] event.type = "Usage" ->
            [w EXCEPT !.token_usage = add_usage(w.token_usage, event)]

\* mutant: the queue is released from the front
pop_front(q) == [rest |-> Tail(q), item |-> Head(q)]

\* Vec::pop on a non-empty queue: the last element and the remaining queue
pop(q) == [rest |-> SubSeq(q, 1, Len(q) - 1), item |-> q[Len(q)]]

\* mutant: a finished turn empties the queue and submits nothing
release_queued_drops(w) == [w EXCEPT !.message_queue = <<>>]

\* mutant: a finished turn releases nothing from the queue
release_queued_never(w) == w

\* `if let Some(queued) = self.message_queue.pop() { ...send_to_claude... }`
release_queued(w) ==
    IF w.message_queue # <<>>
    THEN LET r == pop(w.message_queue) IN
         send_to_claude([w EXCEPT !.message_queue = r.rest,
                                  !.status_message =
                                      Some(<<ToString(Len(r.rest)), " more queued">>)],
                        r.item)
    ELSE w

\* the ClaudeFinished arm of handle_app_message with a queued message whose
\* subprocess cannot be spawned
claude_finished_spawn_fails(w) ==
    LET w1 == finalize_streaming_buffer(
                  [w EXCEPT !.claude_busy = FALSE,
                            !.procs = drop(w.procs, w.claude_process),
                            !.claude_process = None])
        r == pop(w1.message_queue)
    IN send_to_claude_spawn_fails(
           [w1 EXCEPT !.message_queue = r.rest,
                      !.status_message =
                          Some(<<ToString(Len(r.rest)), " more queued">>)],
           r.item)

\* BashExecutor::execute: spawn the task that runs the command
execute(w, command) ==
    [w EXCEPT !.shells = Append(w.shells, [command |-> command, pc |-> "spawned"])]

\* App::execute_bash: push the provisional entry "$ {command}", then execute
execute_bash(w, command) ==
    execute([w EXCEPT !.messages =
                 Append(w.messages, Entry("Bash", TextContent(<<"$ ">> \o command)))],
            command)

\* text.starts_with("$ ")
starts_with_prompt(text) == text # <<>> /\ text[1] = "$ "

\* the AppMessage::BashOutput arm of handle_app_message
apply_bash_output(w, output) ==
    LET n == Len(w.messages) IN
    IF n > 0 /\ w.messages[n].content.variant = "Text"
             /\ starts_with_prompt(w.messages[n].content.text)
    THEN [w EXCEPT !.messages[n].content =
              BashCommandContent(Tail(w.messages[n].content.text), output, 0)]
    ELSE w

\* the AppMessage::BashFinished arm of handle_app_message
apply_bash_finished(w, exit_code) ==
    LET n == Len(w.messages) IN
    IF n > 0 /\ w.messages[n].content.variant = "BashCommand"
    THEN [w EXCEPT !.messages[n].content.exit_code = exit_code]
    ELSE w

\* mutant: the error is reported and the mode is left as it is
apply_voice_error_keeps_mode(w, err) ==
    [w EXCEPT !.status_message = Some(<<"Voice error: ">> \o err)]

\* the AppMessage::VoiceError arm of handle_app_message
apply_voice_error(w, err) ==
    [w EXCEPT !.input_mode = "Normal",
              !.status_message = Some(<<"Voice error: ">> \o err)]

\* App::handle_app_message
handle_app_message(w, msg) ==
    CASE msg.type = "ClaudeEvent" -> handle_claude_event(w, msg.event)
      [] msg.type = "BashOutput" -> apply_bash_output(w, msg.output)
      [] msg.type = "BashFinished" -> apply_bash_finished(w, msg.exit_code)
      [] msg.type = "ClaudeFinished" ->
            LET w1 == [w EXCEPT !.claude_busy = FALSE,
                                !.procs = drop(w.procs, w.claude_process),
                                !.claude_process = None]
            IN release_queued(finalize_streaming_buffer(w1))
      [] msg.type = "ClaudeError" ->
            [w EXCEPT !.claude_busy = FALSE,
                      !.procs = drop(w.procs, w.claude_process),
                      !.claude_process = None,
                      !.messages = Append(w.messages,
                          Entry("System", TextContent(<<"Error: ">> \o msg.err)))]
      [] msg.type = "VoiceTranscription" ->
            LET pushed == w.input \o msg.text IN
            [w EXCEPT !.input = pushed,
                      !.cursor_position = Len(pushed),
                      !.status_message = Some(<<"Transcription complete">>)]
      [] msg.type = "VoiceError" -> apply_voice_error(w, msg.err)
      [] msg.type = "SessionMessage" ->
            [w EXCEPT !.messages = Append(w.messages,
                          Entry("System",
                                TextContent(<<"[Session ", msg.from, "]: ",
                                              msg.message>>)))]

\* App::handle_slash_command, the "clear" arm (scroll_offset is outside the
\* modelled state)
slash_clear(w) == [w EXCEPT !.messages = <<>>]

\* App::handle_slash_command, the "model" arm; args is empty for "/model"
slash_model(w, args) ==
    IF args # ""
    THEN [w EXCEPT !.model = args,
                   !.status_message = Some(<<"Model set to: ", args>>)]
    ELSE [w EXCEPT !.status_message = Some(<<"Current model: ", w.model>>)]

\* App::handle_normal_mode_key, the Ctrl-C arm
interrupt(w) ==
    IF w.claude_busy
    THEN IF w.claude_process # None
         THEN [w EXCEPT !.procs = abort(w.procs, w.claude_process[1]),
                        !.claude_busy = FALSE,
                        !.status_message = Some(<<"Interrupted">>)]
         ELSE w
    ELSE [w EXCEPT !.input = <<>>, !.cursor_position = 0]

\* App::handle_normal_mode_key, the character arm: String::insert at the cursor
insert_char(w, c) ==
    [w EXCEPT !.input = SubSeq(w.input, 1, w.cursor_position) \o <<c>>
                          \o SubSeq(w.input, w.cursor_position + 1, Len(w.input)),
              !.cursor_position = w.cursor_position + 1]

\* App::handle_normal_mode_key, the Left arm
cursor_left(w) ==
    IF w.cursor_position > 0
    THEN [w EXCEPT !.cursor_position = w.cursor_position - 1]
    ELSE w

\* VoiceRecorder::start: clear the samples, set the recording flag, spawn a
\* capture thread that runs run_recording
VoiceRecorder_start(v) ==
    [v EXCEPT !.samples = 0, !.recording = TRUE,
              !.threads = Append(@, "spawned")]

\* the grace delay of stop and cancel (200 ms and 100 ms, the capture loop
\* polls the flag every 10 ms): every capture thread sees the cleared flag
\* and returns before the recorder goes on
grace_delay(v) == [v EXCEPT !.threads = [t \in DOMAIN @ |-> "exited"]]

\* VoiceRecorder::cancel: clear the flag, sleep, clear the samples
VoiceRecorder_cancel(v) ==
    [grace_delay([v EXCEPT !.recording = FALSE]) EXCEPT !.samples = 0]

\* App::handle_recording_mode_key, the Esc arm
cancel_recording(w) ==
    [w EXCEPT !.voice = VoiceRecorder_cancel(w.voice),
              !.input_mode = "Normal",
              !.status_message = Some(<<"Recording cancelled">>)]

\* App::toggle_voice_recording in normal mode
start_recording(w) ==
    [w EXCEPT !.voice = VoiceRecorder_start(w.voice),
              !.input_mode = "Recording",
              !.status_message = Some(<<"Recording...">>)]

\* App::toggle_voice_recording in recording mode, after VoiceRecorder::stop
\* has returned Ok
recording_stopped(w) ==
    [w EXCEPT !.input_mode = "Normal",
              !.status_message = Some(<<"Transcribing...">>)]

\* App::toggle_voice_recording in recording mode.  VoiceRecorder::stop clears
\* the flag and sleeps; with samples it spawns the transcription task and
\* returns; without samples it sends VoiceError on the bus itself, and the
\* orchestrator's step is suspended in that send until the bus takes it.
stop_recording(w) ==
    LET v == grace_delay([w.voice EXCEPT !.recording = FALSE]) IN
    IF v.samples = 0
    THEN [w EXCEPT !.voice = v,
                   !.awaiting = Some(VoiceError(<<"No audio recorded">>))]
    ELSE recording_stopped([w EXCEPT !.voice = [v EXCEPT !.jobs = Append(@, "running")]])

toggle_voice_recording(w) ==
    IF w.input_mode = "Normal" THEN start_recording(w) ELSE stop_recording(w)

\* the send of VoiceRecorder::stop completes, stop returns Ok and
\* toggle_voice_recording goes on
stop_send_completes(w) ==
    recording_stopped([w EXCEPT !.bus = Append(w.bus, w.awaiting[1]),
                                !.awaiting = None])

\* Ctrl-Q in normal mode, or "/quit": should_quit is set, the loop breaks,
\* cleanup runs and run returns Ok
quit(w) == run_returns(w, "Ok")

\* a line of a mailbox file: the JSON object written by send_message
MailboxLine(from, message) == [from |-> from, message |-> message]

\* the "inbox" arm after read_inbox returned the messages of the file
inbox_entries(lines) ==
    [i \in DOMAIN lines |->
        Entry("System", TextContent(<<"[time] ", lines[i].from, ": ",
                                      lines[i].message>>))]

\* SessionManager::read_inbox and the "inbox" arm of handle_slash_command:
\* without a mailbox file there are no messages; with one, it is read and
\* removed, and every message becomes a system entry
slash_inbox(w) ==
    IF w.mailbox = None \/ w.mailbox[1] = <<>>
    THEN [w EXCEPT !.mailbox = None,
                   !.status_message = Some(<<"No messages">>)]
    ELSE [w EXCEPT !.mailbox = None,
                   !.messages = w.messages \o inbox_entries(w.mailbox[1])]

\* the "sessions", "send", "broadcast" and "inbox" arms of
\* handle_slash_command.  io_ok says whether the file operations of the
\* SessionManager call succeed; their error is passed on with `?`.  The
\* listing finds no session file of another live session.
slash_session_command(w, cmd, io_ok) ==
    IF ~io_ok THEN propagate(w)
    ELSE CASE cmd = "sessions" ->
                [w EXCEPT !.messages = Append(w.messages,
                     Entry("System", TextContent(<<"Active sessions:\n",
                                                   "No other active sessions">>)))]
           [] cmd = "send" ->
                [w EXCEPT !.status_message = Some(<<"Sent to ", "peer">>)]
           [] cmd = "broadcast" ->
                [w EXCEPT !.status_message = Some(<<"Broadcast sent">>)]
           [] cmd = "inbox" -> slash_inbox(w)

(***************************************************************************)
(* The state machine                                                       *)
(***************************************************************************)
\* VoiceRecorder::new: not recording, no samples; no transcription task yet
NewVoiceRecorder ==
    [recording |-> FALSE, samples |-> 0, jobs |-> <<>>, threads |-> <<>>]

\* the polling task as SessionManager::register starts it: last_size = 0,
\* about to sleep
NewPoller == [pc |-> "sleep", last_size |-> 0, size |-> 0, batch |-> <<>>,
              send_errors |-> 0, steps_after_error |-> 0]

\* a peer session that has sent nothing yet
NewPeer == [pc |-> "idle", content |-> <<>>, sent |-> 0]

\* delete_word_backward is about to be called with these arguments
Call(text, cursor) == [input |-> text, cursor_position |-> cursor, result |-> None]

\* no call of the word functions is under way
NoCall == Call(<<>>, 0)

\* App::new(model, continue_session, resume_session) and StreamParser::new
InitWith(m, c, r) ==
    /\ model = m
    /\ continue_session = c
    /\ resume_session = r
    /\ messages = <<>>
    /\ message_queue = <<>>
    /\ claude_busy = FALSE
    /\ streaming_buffer = <<>>
    /\ claude_process = None
    /\ status_message = None
    /\ token_usage = [input_tokens |-> 0, output_tokens |-> 0,
                      cache_read_tokens |-> 0, cache_write_tokens |-> 0]
    /\ procs = [p \in Pids |-> NoProcess]
    /\ bus = <<>>
    /\ parser = NewParser
    /\ fed = <<>>
    /\ discarded = {}
    /\ turn_failed = FALSE
    /\ keys = 0
    /\ shells = <<>>
    /\ input = <<>>
    /\ cursor_position = 0
    /\ input_mode = "Normal"
    /\ voice = NewVoiceRecorder
    /\ run_result = None
    /\ awaiting = None
    /\ mailbox = None
    /\ poller = NewPoller
    /\ peer = NewPeer

\* the command line's defaults: --model sonnet, no --continue, no --resume
Init == InitWith("sonnet", FALSE, None) /\ word = NoCall

\* the orchestrator's fields, the supervisors and the bus after a handler
SetWorld(w) ==
    /\ messages' = w.messages
    /\ message_queue' = w.message_queue
    /\ claude_busy' = w.claude_busy
    /\ streaming_buffer' = w.streaming_buffer
    /\ claude_process' = w.claude_process
    /\ status_message' = w.status_message
    /\ token_usage' = w.token_usage
    /\ procs' = w.procs
    /\ bus' = w.bus
    /\ shells' = w.shells
    /\ model' = w.model
    /\ continue_session' = w.continue_session
    /\ resume_session' = w.resume_session
    /\ input' = w.input
    /\ cursor_position' = w.cursor_position
    /\ input_mode' = w.input_mode
    /\ voice' = w.voice
    /\ run_result' = w.run_result
    /\ awaiting' = w.awaiting
    /\ mailbox' = w.mailbox
    /\ poller' = w.poller
    /\ peer' = w.peer
    /\ word' = w.word

\* App::run is in its loop and its current step is not suspended in an await
Running == run_result = None /\ awaiting = None

\* the messages submitted so far: each one started a subprocess or is queued
Submitted == Cardinality(Spawned(procs)) + Len(message_queue)

\* the text of the k-th message the user submits.  No code compares message
\* texts, so the messages of a run are named by their order of submission.
UserMessage(k) == <<"M" \o ToString(k)>>

\* the message the user submits next
NextMessage == UserMessage(Submitted + 1)

\* Enter on a non-empty input line that is neither a `!` nor a `/` command:
\* App::submit_input -> App::send_to_claude
SubmitMessage(message) ==
    /\ Running
    /\ keys < MaxKeys
    /\ keys' = keys + 1
    /\ SetWorld(send_to_claude(World, message))
    /\ turn_failed' = FALSE
    /\ UNCHANGED <<parser, fed, discarded>>

Submit == SubmitMessage(NextMessage)

\* Ctrl-C in normal mode
Interrupt ==
    /\ Running
    /\ keys < MaxKeys
    /\ keys' = keys + 1
    /\ SetWorld(interrupt(World))
    /\ discarded' = IF claude_busy /\ claude_process # None
                    THEN discarded \cup Range(streaming_buffer) ELSE discarded
    /\ UNCHANGED <<parser, fed, turn_failed>>

\* mutant: the orchestrator takes the newest message of the bus
Recv_newest(type) ==
    /\ Running
    /\ bus # <<>>
    /\ bus[Len(bus)].type = type
    /\ SetWorld(handle_app_message([World EXCEPT !.bus = SubSeq(bus, 1, Len(bus) - 1)],
                                   bus[Len(bus)]))
    /\ UNCHANGED <<parser, fed, discarded, keys>>

\* message_rx.recv() -> handle_app_message, one action per kind of message
Recv(type) ==
    /\ Running
    /\ bus # <<>>
    /\ Head(bus).type = type
    /\ SetWorld(handle_app_message([World EXCEPT !.bus = Tail(bus)], Head(bus)))
    /\ UNCHANGED <<parser, fed, discarded, keys>>

RecvClaudeEvent == Recv("ClaudeEvent") /\ UNCHANGED turn_failed

RecvClaudeFinished == Recv("ClaudeFinished") /\ UNCHANGED turn_failed

RecvClaudeError == Recv("ClaudeError") /\ turn_failed' = TRUE

\* the text token of line k of subprocess p: every line of every subprocess
\* carries text of its own
Tok(p, k) == ToString(<<p, k>>)

\* the lines a subprocess may write as its k-th line
ProcLines(p, k) ==
    { Json(ContentBlockDelta(TextDelta(<<Tok(p, k)>>))),
      Json(ContentBlockStart(ToolUseBlock(<<"Read">>, Some(JsonObject(<<>>))))) }

\* lines read so far by all reader tasks
LinesRead == LET RECURSIVE Sum(_)
                 Sum(P) == IF P = {} THEN 0
                           ELSE LET p == CHOOSE q \in P : TRUE
                                IN procs[p].nread + Sum(P \ {p})
             IN Sum(Pids)

TaskStep ==
    UNCHANGED <<messages, message_queue, claude_busy, streaming_buffer,
                claude_process, status_message, token_usage, parser, fed,
                discarded, turn_failed, keys, shells, model, continue_session,
                resume_session, sideVars>>

\* reader task: read_line returns Ok(n > 0); parse the line and send every event.
\* Lines the child wrote before it exited or was killed are still read.
ReaderLine(p) ==
    /\ procs[p].reader = "loop"
    /\ LinesRead < MaxLines
    /\ \E line \in ProcLines(p, procs[p].nread + 1) :
          LET r == parse_line(procs[p].parser, line) IN
          /\ send_ready(bus, Len(r.events))
          /\ bus' = bus \o [i \in DOMAIN r.events |-> ClaudeEvent(r.events[i])]
          /\ procs' = [procs EXCEPT ![p].parser = r.parser, ![p].nread = @ + 1]
    /\ TaskStep

\* reader task: read_line returns Ok(0), the child's stdout is closed (the child
\* was killed, or exits by itself now); break, then send ClaudeFinished
ReaderEOF(p) ==
    /\ procs[p].reader = "loop"
    /\ send_ready(bus, 1)
    /\ bus' = Append(bus, ClaudeFinished)
    /\ procs' = [procs EXCEPT ![p].reader = "done",
                              ![p].state = IF @ = "running" THEN "exited" ELSE @,
                              ![p].terminals = Append(@, "ClaudeFinished")]
    /\ TaskStep

\* reader task: read_line returns Err(e); send ClaudeError(e.to_string()); break
ReaderError(p) ==
    /\ procs[p].reader = "loop"
    /\ send_ready(bus, 1)
    /\ bus' = Append(bus, ClaudeError(<<"io error">>))
    /\ procs' = [procs EXCEPT ![p].reader = "after_loop",
                              ![p].terminals = Append(@, "ClaudeError")]
    /\ TaskStep

\* reader task, after the loop was left on a read error: send ClaudeFinished
ReaderFinished(p) ==
    /\ procs[p].reader = "after_loop"
    /\ send_ready(bus, 1)
    /\ bus' = Append(bus, ClaudeFinished)
    /\ procs' = [procs EXCEPT ![p].reader = "done",
                              ![p].terminals = Append(@, "ClaudeFinished")]
    /\ TaskStep

Next ==
    \/ Submit
    \/ Interrupt
    \/ RecvClaudeEvent
    \/ RecvClaudeFinished
    \/ RecvClaudeError
    \/ \E p \in Pids : ReaderLine(p)
    \/ \E p \in Pids : ReaderEOF(p)
    \/ \E p \in Pids : ReaderError(p)
    \/ \E p \in Pids : ReaderFinished(p)

Spec == Init /\ [][Next]_vars

\* Turns that end with ClaudeFinished, under the scheduling the runtime
\* gives: App::run keeps polling message_rx, so the message at the head of
\* the bus is eventually handled; a reader task keeps running, and its
\* subprocess eventually closes its stdout (it exits or is killed), so every
\* reader eventually leaves its loop and sends ClaudeFinished.  MaxKeys makes
\* the user stop submitting.
NextDrain ==
    \/ Submit
    \/ Interrupt
    \/ RecvClaudeEvent
    \/ RecvClaudeFinished
    \/ \E p \in Pids : ReaderLine(p)
    \/ \E p \in Pids : ReaderEOF(p)

SpecDrain ==
    /\ Init
    /\ [][NextDrain]_vars
    /\ WF_vars(RecvClaudeEvent \/ RecvClaudeFinished)
    /\ \A p \in Pids : WF_vars(ReaderEOF(p))

(***************************************************************************)
(* SpecStream: turns whose subprocess streams up to MaxStream lines in all *)
(* and ends by itself                                                      *)
(***************************************************************************)
\* the token counters of the usage records
UsageA == [input_tokens |-> 10, output_tokens |-> 5,
           cache_read_input_tokens |-> 3, cache_creation_input_tokens |-> 2]
UsageB == [input_tokens |-> 1, output_tokens |-> 20,
           cache_read_input_tokens |-> 0, cache_creation_input_tokens |-> 7]

StreamLines ==
    { Json(ContentBlockDelta(TextDelta(<<"H">>))),
      Json(ContentBlockDelta(TextDelta(<<"i">>))),
      Json(ContentBlockStart(ToolUseBlock(<<"Read">>, Some(JsonObject(<<>>))))) }

UsageLines ==
    { Json(Envelope("assistant", Some(<<TextBlock(<<"H", "i">>)>>), Some(UsageA))),
      Json(MessageDelta(Some(UsageB))),
      Json(MessageDelta(None)) }

\* Enter on the input line "/clear": App::submit_input -> handle_slash_command
SlashClear ==
    /\ Running
    /\ keys < MaxKeys
    /\ keys' = keys + 1
    /\ SetWorld(slash_clear(World))
    /\ UNCHANGED <<parser, fed, discarded, turn_failed>>

\* reader task: read_line returns Ok(n > 0), as ReaderLine, for one of the
\* given lines; fed records the line, the parser before and after, the events
StreamLine(p, lines) ==
    /\ procs[p].reader = "loop"
    /\ Len(fed) < MaxStream
    /\ \E line \in lines :
          LET r == parse_line(procs[p].parser, line) IN
          /\ send_ready(bus, Len(r.events))
          /\ bus' = bus \o [i \in DOMAIN r.events |-> ClaudeEvent(r.events[i])]
          /\ procs' = [procs EXCEPT ![p].parser = r.parser, ![p].nread = @ + 1]
          /\ fed' = Append(fed, [pid |-> p, line |-> line,
                                 before |-> procs[p].parser,
                                 after |-> r.parser, events |-> r.events])
    /\ UNCHANGED <<messages, message_queue, claude_busy, streaming_buffer,
                   claude_process, status_message, token_usage, parser,
                   discarded, turn_failed, keys, shells, model,
                   continue_session, resume_session, sideVars>>

NextStream ==
    \/ Submit
    \/ RecvClaudeEvent
    \/ RecvClaudeFinished
    \/ \E p \in Pids : StreamLine(p, StreamLines)
    \/ \E p \in Pids : ReaderEOF(p)

SpecStream == Init /\ [][NextStream]_vars

\* SpecBlocks: as SpecStream, for records that carry thinking and tool results
BlockLines ==
    { Json(ContentBlockDelta(TextDelta(<<"H">>))),
      Json(ContentBlockDelta(ThinkingDelta(<<"hm">>))),
      Json(ContentBlockStart(ToolResultBlock(JsonString(<<"ok">>)))),
      Json(ContentBlockStart(ToolUseBlock(<<"Read">>, Some(JsonObject(<<>>))))) }

NextBlocks ==
    \/ Submit
    \/ RecvClaudeEvent
    \/ RecvClaudeFinished
    \/ \E p \in Pids : StreamLine(p, BlockLines)
    \/ \E p \in Pids : ReaderEOF(p)

SpecBlocks == Init /\ [][NextBlocks]_vars

\* SpecUsage: as SpecStream, for records that carry token usage, and with the
\* /clear command
NextUsage ==
    \/ Submit
    \/ SlashClear
    \/ RecvClaudeEvent
    \/ RecvClaudeFinished
    \/ \E p \in Pids : StreamLine(p, UsageLines)
    \/ \E p \in Pids : ReaderEOF(p)

SpecUsage == Init /\ [][NextUsage]_vars

(***************************************************************************)
(* SpecShell: the user runs shell commands with `!` and submits messages   *)
(* while the commands' results arrive on the bus                           *)
(***************************************************************************)
ShellCommands == {<<"ls">>, <<"false">>}

\* execute_command: the output and the exit code of `sh -c command`
execute_command(command) ==
    [output |-> <<"output of ">> \o command,
     exit_code |-> IF command = <<"false">> THEN 1 ELSE 0]

\* a message, and a message that starts like a provisional shell entry
ShellMessages == {<<"hi">>, <<"$ ", "hi">>}

\* Enter on the input line "!command": App::submit_input -> execute_bash
ShellCommand(command) ==
    /\ Running
    /\ keys < MaxKeys
    /\ keys' = keys + 1
    /\ SetWorld(execute_bash(World, command))
    /\ UNCHANGED <<parser, fed, discarded, turn_failed>>

ShellTaskStep ==
    UNCHANGED <<messages, message_queue, claude_busy, streaming_buffer,
                claude_process, status_message, token_usage, procs, parser, fed,
                discarded, turn_failed, keys, model, continue_session,
                resume_session, sideVars>>

\* the spawned task: tx.send(BashOutput(output)).await
ShellOutput(t) ==
    /\ shells[t].pc = "spawned"
    /\ send_ready(bus, 1)
    /\ bus' = Append(bus, BashOutput(execute_command(shells[t].command).output))
    /\ shells' = [shells EXCEPT ![t].pc = "output_sent"]
    /\ ShellTaskStep

\* the spawned task: tx.send(BashFinished(exit_code)).await
ShellFinished(t) ==
    /\ shells[t].pc = "output_sent"
    /\ send_ready(bus, 1)
    /\ bus' = Append(bus, BashFinished(execute_command(shells[t].command).exit_code))
    /\ shells' = [shells EXCEPT ![t].pc = "done"]
    /\ ShellTaskStep

RecvBashOutput == Recv("BashOutput") /\ UNCHANGED turn_failed

RecvBashFinished == Recv("BashFinished") /\ UNCHANGED turn_failed

NextShell ==
    \/ \E command \in ShellCommands : ShellCommand(command)
    \/ \E message \in ShellMessages : SubmitMessage(message)
    \/ \E t \in DOMAIN shells : ShellOutput(t)
    \/ \E t \in DOMAIN shells : ShellFinished(t)
    \/ RecvBashOutput
    \/ RecvBashFinished

SpecShell == Init /\ [][NextShell]_vars

(***************************************************************************)
(* SpecContext: enough shell commands and messages for a shell entry to    *)
(* leave the window build_context looks at                                 *)
(***************************************************************************)
MaxContextKeys == 6

\* Enter on the input line "!command", by a user who runs a command when
\* the results of the one before are on the screen
ContextShell(command) ==
    /\ Running
    /\ keys < MaxContextKeys
    /\ \A t \in DOMAIN shells : shells[t].pc = "done"
    /\ \A i \in DOMAIN bus : bus[i].type \notin {"BashOutput", "BashFinished"}
    /\ keys' = keys + 1
    /\ SetWorld(execute_bash(World, command))
    /\ UNCHANGED <<parser, fed, discarded, turn_failed>>

\* Enter on a message
ContextSubmit ==
    /\ Running
    /\ keys < MaxContextKeys
    /\ Submitted < MaxKeys
    /\ keys' = keys + 1
    /\ SetWorld(send_to_claude(World, NextMessage))
    /\ turn_failed' = FALSE
    /\ UNCHANGED <<parser, fed, discarded>>

NextContext ==
    \/ \E command \in ShellCommands : ContextShell(command)
    \/ ContextSubmit
    \/ \E t \in DOMAIN shells : ShellOutput(t)
    \/ \E t \in DOMAIN shells : ShellFinished(t)
    \/ RecvBashOutput
    \/ RecvBashFinished
    \/ \E p \in Pids : ReaderEOF(p)
    \/ RecvClaudeFinished

SpecContext == Init /\ [][NextContext]_vars

(***************************************************************************)
(* SpecWords: input_utils, the word functions, called with every input     *)
(* line of up to MaxWordLen ASCII bytes and every cursor position in it    *)
(***************************************************************************)
MaxWordLen == 4

\* a letter, punctuation, and two of the bytes is_ascii_whitespace accepts
WordBytes == {"a", "-", " ", "\t"}

\* u8::is_ascii_whitespace: space, tab, line feed, form feed, carriage return
is_ascii_whitespace(b) == b \in {" ", "\t", "\n", "\f", "\r"}

\* `while pos > 0 && bytes[pos].is_ascii_whitespace() { pos -= 1; }`
\* (bytes[pos] of the code is bytes[pos + 1] here: sequences start at 1)
RECURSIVE skip_trailing_whitespace(_, _)
skip_trailing_whitespace(bytes, pos) ==
    IF pos > 0 /\ is_ascii_whitespace(bytes[pos + 1])
    THEN skip_trailing_whitespace(bytes, pos - 1)
    ELSE pos

\* `while pos > 0 && !bytes[pos - 1].is_ascii_whitespace() { pos -= 1; }`
RECURSIVE find_start_of_word(_, _)
find_start_of_word(bytes, pos) ==
    IF pos > 0 /\ ~is_ascii_whitespace(bytes[pos])
    THEN find_start_of_word(bytes, pos - 1)
    ELSE pos

\* input_utils::find_word_boundary_backward (for cursor_position >= 1 the
\* input is not empty, so the usize subtraction does not wrap)
find_word_boundary_backward(text, cursor) ==
    IF cursor = 0 THEN 0
    ELSE LET len == Len(text)
             pos == (IF cursor < len THEN cursor ELSE len) - 1
         IN find_start_of_word(text, skip_trailing_whitespace(text, pos))

\* String::drain(from..to): the bytes from..to (0-based, to excluded) removed
drain(text, from, to) == SubSeq(text, 1, from) \o SubSeq(text, to + 1, Len(text))

\* mutant: the text is cut and the cursor is returned where it was
delete_word_backward_keeps_cursor(text, cursor) ==
    LET new_pos == find_word_boundary_backward(text, cursor)
    IN [new_input |-> drain(text, new_pos, cursor), new_pos |-> cursor]

\* input_utils::delete_word_backward
delete_word_backward(text, cursor) ==
    LET new_pos == find_word_boundary_backward(text, cursor)
    IN [new_input |-> drain(text, new_pos, cursor), new_pos |-> new_pos]

\* the input lines of up to MaxWordLen bytes
WordInputs == UNION {[1..n -> WordBytes] : n \in 0..MaxWordLen}

InitWords ==
    /\ InitWith("sonnet", FALSE, None)
    /\ \E text \in WordInputs : \E cursor \in 0..Len(text) : word = Call(text, cursor)

WordStep ==
    UNCHANGED <<messages, message_queue, claude_busy, streaming_buffer,
                claude_process, status_message, token_usage, procs, bus, parser,
                fed, discarded, turn_failed, keys, shells, model,
                continue_session, resume_session, input, cursor_position,
                input_mode, voice, run_result, awaiting, mailbox, poller, peer>>

\* the call returns
DeleteWordBackward ==
    /\ word.result = None
    /\ word' = [word EXCEPT !.result =
                   Some(delete_word_backward(word.input, word.cursor_position))]
    /\ WordStep

\* the result is the input of the next call (as in
\* test_delete_word_backward_multiple)
DeleteNextWord ==
    /\ word.result # None
    /\ word' = Call(word.result[1].new_input, word.result[1].new_pos)
    /\ WordStep

NextWords == DeleteWordBackward \/ DeleteNextWord

SpecWords == InitWords /\ [][NextWords]_vars

(***************************************************************************)
(* SpecSettings: turns for every combination of --continue and --resume,   *)
(* with the /model command.  A reader that left its loop on a read error   *)
(* is followed no further (Spec follows it).                               *)
(***************************************************************************)
InitSettings ==
    /\ \E c \in BOOLEAN, r \in {None, Some("sid")} : InitWith("sonnet", c, r)
    /\ word = NoCall

\* Enter on the input line "/model" or "/model opus"
SlashModel(args) ==
    /\ Running
    /\ keys < MaxKeys
    /\ keys' = keys + 1
    /\ SetWorld(slash_model(World, args))
    /\ UNCHANGED <<parser, fed, discarded, turn_failed>>

NextSettings ==
    \/ Submit
    \/ \E args \in {"", "opus"} : SlashModel(args)
    \/ Interrupt
    \/ RecvClaudeEvent
    \/ RecvClaudeFinished
    \/ RecvClaudeError
    \/ \E p \in Pids : ReaderLine(p)
    \/ \E p \in Pids : ReaderEOF(p)
    \/ \E p \in Pids : ReaderError(p)

SpecSettings == InitSettings /\ [][NextSettings]_vars

(***************************************************************************)
(* SpecEditor: the input line, voice recording and transcription           *)
(***************************************************************************)
EditorChars == {"a", "b"}

\* what the transcription task sends: the transcript, or the error
Transcriptions ==
    {VoiceTranscription(<<"o", "k">>), VoiceError(<<"Whisper API error">>)}

\* a key press handled by handle_key_event, w the state after the handler
KeyPress(w) ==
    /\ Running
    /\ keys < MaxEditKeys
    /\ keys' = keys + 1
    /\ SetWorld(w)
    /\ UNCHANGED <<parser, fed, discarded, turn_failed>>

\* a character key in normal mode
TypeChar(c) == input_mode = "Normal" /\ KeyPress(insert_char(World, c))

\* the Left key in normal mode
KeyLeft == input_mode = "Normal" /\ KeyPress(cursor_left(World))

\* the `*` key, in normal mode and in recording mode
ToggleVoice == KeyPress(toggle_voice_recording(World))

\* the orchestrator's step resumes: the bus takes the message of
\* VoiceRecorder::stop
StopSendCompletes ==
    /\ run_result = None
    /\ awaiting # None
    /\ awaiting[1].type = "VoiceError"
    /\ send_ready(bus, 1)
    /\ SetWorld(stop_send_completes(World))
    /\ UNCHANGED <<parser, fed, discarded, turn_failed, keys>>

VoiceTaskStep ==
    UNCHANGED <<messages, message_queue, claude_busy, streaming_buffer,
                claude_process, status_message, token_usage, procs, parser, fed,
                discarded, turn_failed, keys, shells, model, continue_session,
                resume_session, input, cursor_position, input_mode, run_result,
                awaiting, mailbox, poller, peer, word>>

\* run_recording up to stream.play(): the input device is opened and the
\* thread enters its loop
CaptureOpens(t) ==
    /\ voice.threads[t] = "spawned"
    /\ voice' = [voice EXCEPT !.threads[t] = "capturing"]
    /\ bus' = bus
    /\ VoiceTaskStep

\* run_recording returns an error (no input device, unsupported sample
\* format): the thread sends VoiceError with blocking_send and ends
CaptureFails(t) ==
    /\ voice.threads[t] = "spawned"
    /\ send_ready(bus, 1)
    /\ bus' = Append(bus, VoiceError(<<"No input device available">>))
    /\ voice' = [voice EXCEPT !.threads[t] = "exited"]
    /\ VoiceTaskStep

\* the stream callback of a capture thread pushes samples while the flag is set
CaptureSamples ==
    /\ voice.recording
    /\ \E t \in DOMAIN voice.threads : voice.threads[t] = "capturing"
    /\ voice.samples = 0
    /\ voice' = [voice EXCEPT !.samples = 1]
    /\ bus' = bus
    /\ VoiceTaskStep

\* the transcription task: transcribe returns, the task sends the result
TranscribeDone(j, msg) ==
    /\ voice.jobs[j] = "running"
    /\ send_ready(bus, 1)
    /\ bus' = Append(bus, msg)
    /\ voice' = [voice EXCEPT !.jobs[j] = "done"]
    /\ VoiceTaskStep

RecvVoiceTranscription == Recv("VoiceTranscription") /\ UNCHANGED turn_failed

RecvVoiceError == Recv("VoiceError") /\ UNCHANGED turn_failed

NextEditor ==
    \/ \E c \in EditorChars : TypeChar(c)
    \/ KeyLeft
    \/ ToggleVoice
    \/ StopSendCompletes
    \/ \E t \in DOMAIN voice.threads : CaptureOpens(t)
    \/ CaptureSamples
    \/ \E j \in DOMAIN voice.jobs : \E msg \in Transcriptions : TranscribeDone(j, msg)
    \/ RecvVoiceTranscription
    \/ RecvVoiceError

SpecEditor == Init /\ [][NextEditor]_vars

(***************************************************************************)
(* SpecCapture: recording toggles and cancels, the capture threads, and    *)
(* the voice events on the bus                                             *)
(***************************************************************************)
\* the Esc key in recording mode
CancelVoice == input_mode = "Recording" /\ KeyPress(cancel_recording(World))

NextCapture ==
    \/ TypeChar("a")
    \/ ToggleVoice
    \/ CancelVoice
    \/ StopSendCompletes
    \/ \E t \in DOMAIN voice.threads : CaptureOpens(t)
    \/ \E t \in DOMAIN voice.threads : CaptureFails(t)
    \/ CaptureSamples
    \/ \E j \in DOMAIN voice.jobs : \E msg \in Transcriptions : TranscribeDone(j, msg)
    \/ RecvVoiceTranscription
    \/ RecvVoiceError

SpecCapture == Init /\ [][NextCapture]_vars

(***************************************************************************)
(* SpecInterrupt: as Spec, with the Ctrl-C handler split at the await of   *)
(* ClaudeProcess::abort.  child.kill().await requests the kill and then    *)
(* waits until the child's exit has been reported; Interrupt above is the  *)
(* same handler taken as one step.                                         *)
(***************************************************************************)
\* the exit wait of child.kill().await on subprocess p
ChildExit(p) == [type |-> "ChildExit", pid |-> p]

\* the Ctrl-C arm after process.abort().await has returned
interrupted(w) ==
    [w EXCEPT !.claude_busy = FALSE,
              !.status_message = Some(<<"Interrupted">>),
              !.awaiting = None]

\* the Ctrl-C arm up to the await inside ClaudeProcess::abort: a supervisor
\* not aborted before requests the kill and waits for the child's exit
interrupt_requested(w) ==
    IF w.claude_busy /\ w.claude_process # None
    THEN LET p == w.claude_process[1] IN
         IF ~w.procs[p].aborted
         THEN [w EXCEPT !.procs = abort(w.procs, p),
                        !.awaiting = Some(ChildExit(p))]
         ELSE interrupted([w EXCEPT !.procs = abort(w.procs, p)])
    ELSE interrupt(w)

\* Ctrl-C in normal mode, up to the await
InterruptKey ==
    /\ Running
    /\ keys < MaxKeys
    /\ keys' = keys + 1
    /\ SetWorld(interrupt_requested(World))
    /\ discarded' = IF claude_busy /\ claude_process # None
                    THEN discarded \cup Range(streaming_buffer) ELSE discarded
    /\ UNCHANGED <<parser, fed, turn_failed>>

\* the operating system reports the exit of a child that was killed or has
\* exited by itself
ChildReaped(p) ==
    /\ procs[p].state \in {"killed", "exited"}
    /\ ~procs[p].reaped
    /\ procs' = [procs EXCEPT ![p].reaped = TRUE]
    /\ bus' = bus
    /\ TaskStep

\* child.kill().await returns: the exit of the child has been reported
AbortCompletes ==
    /\ run_result = None
    /\ awaiting # None
    /\ awaiting[1].type = "ChildExit"
    /\ procs[awaiting[1].pid].reaped
    /\ SetWorld(interrupted(World))
    /\ UNCHANGED <<parser, fed, discarded, turn_failed, keys>>

NextInterrupt ==
    \/ Submit
    \/ InterruptKey
    \/ AbortCompletes
    \/ RecvClaudeEvent
    \/ RecvClaudeFinished
    \/ \E p \in Pids : ChildReaped(p)
    \/ \E p \in Pids : ReaderLine(p)
    \/ \E p \in Pids : ReaderEOF(p)

SpecInterrupt == Init /\ [][NextInterrupt]_vars

(***************************************************************************)
(* SpecSpawn: turns in runs where the claude executable may fail to start  *)
(***************************************************************************)
\* Enter on a message with the assistant idle; cmd.spawn() fails
SubmitSpawnFails ==
    /\ Running
    /\ keys < MaxKeys
    /\ ~claude_busy
    /\ keys' = keys + 1
    /\ SetWorld(send_to_claude_spawn_fails(World, NextMessage))
    /\ turn_failed' = FALSE
    /\ UNCHANGED <<parser, fed, discarded>>

\* Enter on a message while idle; the subprocess starts and the write of the
\* message to its stdin fails
SubmitWriteFails ==
    /\ Running
    /\ keys < MaxKeys
    /\ ~claude_busy
    /\ keys' = keys + 1
    /\ SetWorld(send_to_claude_write_fails(World, NextMessage))
    /\ turn_failed' = FALSE
    /\ UNCHANGED <<parser, fed, discarded>>

\* ClaudeFinished is received with a message queued; cmd.spawn() fails
RecvFinishedSpawnFails ==
    /\ Running
    /\ bus # <<>>
    /\ Head(bus).type = "ClaudeFinished"
    /\ message_queue # <<>>
    /\ SetWorld(claude_finished_spawn_fails([World EXCEPT !.bus = Tail(bus)]))
    /\ UNCHANGED <<parser, fed, discarded, keys, turn_failed>>

NextSpawn ==
    \/ Submit
    \/ SubmitSpawnFails
    \/ SubmitWriteFails
    \/ Interrupt
    \/ RecvClaudeEvent
    \/ RecvClaudeFinished
    \/ RecvFinishedSpawnFails
    \/ \E p \in Pids : ReaderLine(p)
    \/ \E p \in Pids : ReaderEOF(p)

SpecSpawn == Init /\ [][NextSpawn]_vars

(***************************************************************************)
(* SpecCollab: the shell, voice and peer-session collaborators, each of    *)
(* which may fail, and the quit key (at most MaxKeys key presses in all)   *)
(***************************************************************************)
SessionCommands == {"sessions", "send", "broadcast", "inbox"}

\* Enter on the input line "/sessions", "/send peer hi", "/broadcast hi" or
\* "/inbox"
SessionCommand(cmd, io_ok) ==
    /\ Running
    /\ keys < MaxKeys
    /\ keys' = keys + 1
    /\ SetWorld(slash_session_command(World, cmd, io_ok))
    /\ UNCHANGED <<parser, fed, discarded, turn_failed>>

\* Ctrl-Q in normal mode
Quit ==
    /\ Running
    /\ input_mode = "Normal"
    /\ keys < MaxKeys
    /\ keys' = keys + 1
    /\ SetWorld(quit(World))
    /\ UNCHANGED <<parser, fed, discarded, turn_failed>>

NextCollab ==
    \/ \E cmd \in SessionCommands, io_ok \in BOOLEAN : SessionCommand(cmd, io_ok)
    \/ Quit
    \/ ShellCommand(<<"false">>)
    \/ \E t \in DOMAIN shells : ShellOutput(t)
    \/ \E t \in DOMAIN shells : ShellFinished(t)
    \/ RecvBashOutput
    \/ RecvBashFinished
    \/ keys < MaxKeys /\ ToggleVoice
    \/ StopSendCompletes
    \/ \E t \in DOMAIN voice.threads : CaptureOpens(t)
    \/ CaptureSamples
    \/ \E j \in DOMAIN voice.jobs : \E msg \in Transcriptions : TranscribeDone(j, msg)
    \/ RecvVoiceTranscription
    \/ RecvVoiceError

SpecCollab == Init /\ [][NextCollab]_vars

(***************************************************************************)
(* SpecMailbox: a peer session writes to this session's mailbox file while *)
(* the polling task and the /inbox command read and remove it.  Every file *)
(* operation is a step of its own: the peer is another process, the poller *)
(* another task.  The size of the file is its number of lines.             *)
(***************************************************************************)
MailboxStep ==
    UNCHANGED <<messages, message_queue, claude_busy, streaming_buffer,
                claude_process, status_message, token_usage, procs, parser, fed,
                discarded, turn_failed, keys, shells, model, continue_session,
                resume_session, input, cursor_position, input_mode, voice,
                run_result, awaiting, word>>

\* history: the poller takes a step after one of its sends has failed
AfterError(po) ==
    [po EXCEPT !.steps_after_error = IF po.send_errors > 0 THEN 1 ELSE @]

\* the k-th message of the peer
PeerMessage(k) == MailboxLine("peer", "m" \o ToString(k))

\* the peer's send_message: `if path.exists() { content = read_to_string }`
PeerRead ==
    /\ peer.pc = "idle"
    /\ peer.sent < MaxPeerSends
    /\ peer' = [peer EXCEPT !.pc = "write",
                            !.content = IF mailbox = None THEN <<>> ELSE mailbox[1]]
    /\ UNCHANGED <<mailbox, poller, bus>>
    /\ MailboxStep

\* the peer's send_message: push the line, fs::write(&path, content)
PeerWrite ==
    /\ peer.pc = "write"
    /\ mailbox' = Some(Append(peer.content, PeerMessage(peer.sent + 1)))
    /\ peer' = [peer EXCEPT !.pc = "idle", !.content = <<>>, !.sent = @ + 1]
    /\ UNCHANGED <<poller, bus>>
    /\ MailboxStep

\* the poller wakes up and metadata(&path) is Ok (without a file it is Err
\* and the iteration changes nothing)
PollMetadata ==
    /\ poller.pc = "sleep"
    /\ mailbox # None
    /\ LET size == Len(mailbox[1])
           woke == AfterError(poller)
       IN poller' = IF size > poller.last_size
                    THEN [woke EXCEPT !.pc = "read", !.size = size]
                    ELSE [woke EXCEPT !.last_size = size]
    /\ UNCHANGED <<mailbox, peer, bus>>
    /\ MailboxStep

\* the poller's read_to_string(&path): Err if the file is gone
PollRead ==
    /\ poller.pc = "read"
    /\ poller' = IF mailbox = None
                 THEN [AfterError(poller) EXCEPT !.pc = "sleep",
                                                 !.last_size = poller.size]
                 ELSE [AfterError(poller) EXCEPT !.pc = "send",
                                                 !.batch = mailbox[1]]
    /\ UNCHANGED <<mailbox, peer, bus>>
    /\ MailboxStep

\* the poller's `let _ = tx.send(SessionMessage {..}).await` for the next
\* message read: the send completes, or fails on a closed bus and is ignored
PollSend ==
    /\ poller.pc = "send"
    /\ poller.batch # <<>>
    /\ LET msg == Head(poller.batch) IN
       IF run_result = None
       THEN /\ send_ready(bus, 1)
            /\ bus' = Append(bus, SessionMessage(msg.from, msg.message))
            /\ poller' = [poller EXCEPT !.batch = Tail(@)]
       ELSE /\ bus' = bus
            /\ poller' = [AfterError(poller) EXCEPT !.batch = Tail(@),
                                                    !.send_errors = 1]
    /\ UNCHANGED <<mailbox, peer>>
    /\ MailboxStep

\* the poller's remove_file(&path), last_size = 0 and then last_size = size
PollRemove ==
    /\ poller.pc = "send"
    /\ poller.batch = <<>>
    /\ mailbox' = None
    /\ poller' = [AfterError(poller) EXCEPT !.pc = "sleep",
                                            !.last_size = poller.size]
    /\ UNCHANGED <<peer, bus>>
    /\ MailboxStep

RecvSessionMessage == Recv("SessionMessage") /\ UNCHANGED turn_failed

NextMailbox ==
    \/ PeerRead
    \/ PeerWrite
    \/ PollMetadata
    \/ PollRead
    \/ PollSend
    \/ PollRemove
    \/ RecvSessionMessage
    \/ SessionCommand("inbox", TRUE)

SpecMailbox == Init /\ [][NextMailbox]_vars

(***************************************************************************)
(* SpecShutdown: the producers of the bus when App::run returns and the    *)
(* App, with the receiver of the bus, is dropped while the reader task and *)
(* the polling task still run.  A send on the closed bus returns Err.      *)
(***************************************************************************)
\* reader task, the bus closed: the first send of the line's events fails
\* and the task returns
ReaderSendFails(p) ==
    /\ procs[p].reader = "loop"
    /\ run_result # None
    /\ LinesRead < MaxLines
    /\ \E line \in ProcLines(p, procs[p].nread + 1) :
          LET r == parse_line(procs[p].parser, line) IN
          /\ r.events # <<>>
          /\ procs' = [procs EXCEPT ![p].parser = r.parser, ![p].nread = @ + 1,
                                    ![p].reader = "done",
                                    ![p].send_errors = @ + 1]
    /\ bus' = bus
    /\ TaskStep

\* reader task, the bus closed: read_line returns Ok(0); break; the send of
\* ClaudeFinished fails and is ignored
ReaderEOFClosed(p) ==
    /\ procs[p].reader = "loop"
    /\ run_result # None
    /\ procs' = [procs EXCEPT ![p].reader = "done",
                              ![p].state = IF @ = "running" THEN "exited" ELSE @,
                              ![p].send_errors = @ + 1]
    /\ bus' = bus
    /\ TaskStep

\* reader task, the bus closed: read_line returns Err(e); the send of
\* ClaudeError fails and is ignored; break
ReaderErrorClosed(p) ==
    /\ procs[p].reader = "loop"
    /\ run_result # None
    /\ procs' = [procs EXCEPT ![p].reader = "after_loop",
                              ![p].send_errors = @ + 1]
    /\ bus' = bus
    /\ TaskStep

\* reader task, the bus closed, after the loop was left on a read error: the
\* send of ClaudeFinished fails and is ignored
ReaderFinishedClosed(p) ==
    /\ procs[p].reader = "after_loop"
    /\ run_result # None
    /\ procs' = [procs EXCEPT ![p].reader = "done",
                              ![p].send_errors = @ + 1]
    /\ bus' = bus
    /\ TaskStep

NextShutdown ==
    \/ Submit
    \/ Quit
    \/ \E p \in Pids : ReaderLine(p)
    \/ \E p \in Pids : ReaderSendFails(p)
    \/ \E p \in Pids : ReaderEOFClosed(p)
    \/ \E p \in Pids : ReaderErrorClosed(p)
    \/ \E p \in Pids : ReaderFinishedClosed(p)
    \/ PeerRead
    \/ PeerWrite
    \/ PollMetadata
    \/ PollRead
    \/ PollSend
    \/ PollRemove

SpecShutdown == Init /\ [][NextShutdown]_vars

(***************************************************************************)
(* SpecSupervisor: the operations of ClaudeProcess applied in any order by *)
(* an owner: create and send, abort (any number of times), drop            *)
(***************************************************************************)
SupervisorStep ==
    UNCHANGED <<messages, message_queue, claude_busy, streaming_buffer,
                claude_process, status_message, token_usage, bus, parser, fed,
                discarded, turn_failed, keys, shells, model, continue_session,
                resume_session, sideVars>>

\* ClaudeProcess::new followed by ClaudeProcess::send
SupervisorStart ==
    /\ Cardinality(Spawned(procs)) < MaxKeys
    /\ LET p == Cardinality(Spawned(procs)) + 1 IN
       procs' = send(ClaudeProcess_new(procs, p, model, continue_session,
                                       resume_session),
                     p, UserMessage(p))
    /\ SupervisorStep

\* ClaudeProcess::abort on a supervisor that still exists
SupervisorAbort(p) ==
    /\ p \in Spawned(procs)
    /\ ~procs[p].dropped
    /\ procs[p].aborts < MaxAborts
    /\ procs' = abort(procs, p)
    /\ SupervisorStep

\* the owner drops the supervisor
SupervisorDrop(p) ==
    /\ p \in Spawned(procs)
    /\ ~procs[p].dropped
    /\ procs' = drop(procs, Some(p))
    /\ SupervisorStep

NextSupervisor ==
    \/ SupervisorStart
    \/ \E p \in Pids : SupervisorAbort(p)
    \/ \E p \in Pids : SupervisorDrop(p)
    \/ \E p \in Pids : ReaderEOF(p)

SpecSupervisor == Init /\ [][NextSupervisor]_vars

(***************************************************************************)
(* SpecBus: one turn whose subprocess streams up to MaxBusLines text       *)
(* deltas, more than the bus holds, while the orchestrator receives them   *)
(* and the user submits further messages                                   *)
(***************************************************************************)
\* reader task: read_line returns Ok(n > 0), as ReaderLine; the k-th line is
\* a text delta carrying Tok(p, k)
BusReaderLine(p) ==
    /\ procs[p].reader = "loop"
    /\ procs[p].nread < MaxBusLines
    /\ LET line == Json(ContentBlockDelta(TextDelta(<<Tok(p, procs[p].nread + 1)>>)))
           r == parse_line(procs[p].parser, line)
       IN /\ send_ready(bus, Len(r.events))
          /\ bus' = bus \o [i \in DOMAIN r.events |-> ClaudeEvent(r.events[i])]
          /\ procs' = [procs EXCEPT ![p].parser = r.parser, ![p].nread = @ + 1]
    /\ TaskStep

NextBus ==
    \/ Submit
    \/ RecvClaudeEvent
    \/ \E p \in Pids : BusReaderLine(p)

SpecBus == Init /\ [][NextBus]_vars

\* SpecBacklog: as SpecBus, with the voice key pressed while the subprocess
\* streams (at most MaxKeys key presses in all)
NextBacklog ==
    \/ Submit
    \/ RecvClaudeEvent
    \/ \E p \in Pids : BusReaderLine(p)
    \/ keys < MaxKeys /\ ToggleVoice
    \/ StopSendCompletes
    \/ RecvVoiceError

SpecBacklog == Init /\ [][NextBacklog]_vars

(***************************************************************************)
(* SpecParser: one StreamParser, fed up to MaxFeed lines                   *)
(***************************************************************************)
Fragments == {<<"{">>, <<"}">>}

ParserLines ==
    { Json(ContentBlockStart(ToolUseBlock(<<"Read">>, tool_input))) :
          tool_input \in {None, Some(JsonObject(<<>>)),
                     Some(JsonObject(<<[k |-> "a", v |-> "1"]>>))} }
    \cup { Json(ContentBlockDelta(InputJsonDelta(f))) : f \in Fragments }
    \cup { Json(ContentBlockStop),
           Json(ContentBlockDelta(TextDelta(<<"Hi">>))),
           NotJson, BlankLine, Json(SystemRecord), Json(UnknownRecord),
           Json(UserToolResult) }

Feed(line) ==
    /\ Len(fed) < MaxFeed
    /\ LET r == parse_line(parser, line) IN
       /\ parser' = r.parser
       /\ fed' = Append(fed, [line |-> line, before |-> parser,
                              after |-> r.parser, events |-> r.events])
    /\ UNCHANGED appVars

NextParser == \E line \in ParserLines : Feed(line)

SpecParser == Init /\ [][NextParser]_vars

(***************************************************************************)
(* Properties of the orchestrator (Spec)                                   *)
(***************************************************************************)
IsAssistantText(e) == e.role = "Assistant" /\ e.content.variant = "Text"

\* the supervisor created by a step, if the step created exactly one
NewProcs == Spawned(procs') \ Spawned(procs)

\* C1: in every reachable state at most one assistant subprocess is live
\* (spawned, not killed, not exited) and at most one turn is active: a live
\* subprocess is the one the orchestrator holds, and it holds it for the one
\* turn the busy flag stands for.
C1_SingleFlight ==
    /\ Cardinality(Live(procs)) <= 1
    /\ \A p \in Live(procs) : claude_busy /\ claude_process = Some(p)

\* a turn is active on a live subprocess while the reader of an interrupted
\* earlier subprocess has not finished yet
W_C1 ==
    \E p, q \in Pids :
        /\ p # q
        /\ procs[p].state = "killed" /\ procs[p].reader = "loop"
        /\ procs[q].state = "running" /\ claude_busy /\ claude_process = Some(q)

\* C2: after an interrupt of an active turn whose streaming buffer holds partial
\* text, no assistant text entry containing that partial output is appended in
\* any later state.  (discarded holds the text that was in the buffer, and so
\* in no entry, at an interrupt; that the interrupt clears the busy flag holds.)
C2_PartialOutputDiscarded ==
    \A i \in DOMAIN messages :
        IsAssistantText(messages[i]) =>
            Range(messages[i].content.text) \cap discarded = {}

\* C3: submitting a message while the busy flag is set appends it to the end of
\* the pending queue and changes nothing else of the turn state.
C3_SubmitWhileBusyOnlyQueues ==
    [][(Submit /\ claude_busy) =>
           /\ message_queue' = Append(message_queue, NextMessage)
           /\ UNCHANGED <<messages, procs, bus, claude_busy, streaming_buffer,
                          claude_process, token_usage>>]_vars

\* two messages were queued behind an active turn
W_C3 ==
    /\ claude_busy
    /\ Len(message_queue) = 2
    /\ status_message = Some(<<"Queued (", "2", " pending)">>)
    /\ Cardinality(Spawned(procs)) = 1

\* C4: each turn-finished event applied releases exactly one queued message when
\* the queue is non-empty (the queue shrinks by exactly that one message and
\* exactly one new subprocess is started with it, with no key press) and starts
\* no subprocess when the queue is empty.
C4_ReleaseExactlyOne ==
    [][RecvClaudeFinished =>
           IF message_queue # <<>>
           THEN /\ Len(message_queue') = Len(message_queue) - 1
                /\ keys' = keys
                /\ \E i \in DOMAIN message_queue : \E p \in Pids :
                      /\ message_queue' =
                             SubSeq(message_queue, 1, i - 1)
                                 \o SubSeq(message_queue, i + 1, Len(message_queue))
                      /\ NewProcs = {p}
                      /\ procs'[p].state = "running"
                      /\ procs'[p].stdin = Some(message_queue[i])
                      /\ claude_busy' /\ claude_process' = Some(p)
           ELSE /\ NewProcs = {}
                /\ message_queue' = <<>>
                /\ ~claude_busy' /\ claude_process' = None]_vars

\* a finished turn released one of two queued messages into a new subprocess
W_C4 ==
    /\ status_message = Some(<<"1", " more queued">>)
    /\ Len(message_queue) = 1
    /\ claude_busy
    /\ \E p \in Pids : claude_process = Some(p) /\ procs[p].state = "running"
                       /\ procs[p].stdin # None

\* C5: when two messages are queued during an active turn, the one submitted
\* at the next turn-finished is the last submitted: release takes from the end
\* of the pending list, and the earlier message stays queued for a later
\* completion.
C5_ReleaseLastSubmittedFirst ==
    [][(RecvClaudeFinished /\ message_queue # <<>>) =>
           /\ message_queue' = SubSeq(message_queue, 1, Len(message_queue) - 1)
           /\ \A p \in NewProcs :
                  procs'[p].stdin = Some(message_queue[Len(message_queue)])]_vars

\* the second and third message were queued behind the first; the third was
\* sent at the completion and the second is still queued
W_C5 ==
    /\ message_queue = <<UserMessage(2)>>
    /\ \E p \in Pids : /\ claude_process = Some(p)
                       /\ procs[p].stdin = Some(UserMessage(3))
    /\ status_message = Some(<<"1", " more queued">>)

\* C6: for each send the stdout reader emits exactly one terminal bus event:
\* ClaudeFinished on end-of-stream or, on a read error, ClaudeError instead of
\* ClaudeFinished.
C6_OneTerminalEvent ==
    \A p \in Pids :
        /\ Len(procs[p].terminals) <= 1
        /\ procs[p].reader = "done" => Len(procs[p].terminals) = 1

\* C7: after a turn fails with a read error the busy flag is cleared, one system
\* entry recording the failure is appended, and the pending queue is left
\* untouched: no queued message is removed or submitted until the user submits.
C7_FailureLeavesQueue ==
    [][/\ RecvClaudeError =>
             /\ ~claude_busy'
             /\ messages' = Append(messages,
                    Entry("System", TextContent(<<"Error: ">> \o Head(bus).err)))
             /\ message_queue' = message_queue
       /\ (turn_failed /\ ~Submit) =>
             /\ message_queue' = message_queue
             /\ NewProcs = {}]_vars

\* C8: applying turn-finished clears the busy flag and, if the streaming buffer
\* is non-empty, appends exactly one assistant text entry whose content is the
\* whole buffer and empties the buffer, before any queued message is submitted
\* (the released message's user entry follows it, and the busy flag is set
\* again only for that new turn); with an empty buffer no assistant entry is
\* appended.
C8_FinishFinalizesBuffer ==
    [][RecvClaudeFinished =>
           LET finalized == IF streaming_buffer # <<>>
                            THEN <<Entry("Assistant", TextContent(streaming_buffer))>>
                            ELSE <<>>
           IN /\ streaming_buffer' = <<>>
              /\ claude_busy' = (message_queue # <<>>)
              /\ IF message_queue = <<>>
                 THEN messages' = messages \o finalized
                 ELSE \E i \in DOMAIN message_queue :
                          messages' = messages \o finalized
                              \o <<Entry("User", TextContent(message_queue[i]))>>]_vars

\* a finished turn finalized streamed text and then submitted a queued message
W_C8 ==
    /\ Len(messages) >= 2
    /\ IsAssistantText(messages[Len(messages) - 1])
    /\ messages[Len(messages) - 1].content.text # <<>>
    /\ messages[Len(messages)].role = "User"
    /\ status_message = Some(<<"0", " more queued">>)
    /\ claude_busy

(***************************************************************************)
(* Properties of the stream decoder (SpecParser)                           *)
(***************************************************************************)
IsToolStart(l) ==
    /\ l.line = "json"
    /\ l.record.type = "content_block_start"
    /\ l.record.content_block.type = "tool_use"
    /\ l.record.content_block.input # None
IsInputJsonDelta(l) ==
    /\ l.line = "json"
    /\ l.record.type = "content_block_delta"
    /\ l.record.delta.type = "input_json_delta"
IsStop(l) == l.line = "json" /\ l.record.type = "content_block_stop"

\* the events returned for lines i..j, in order
EventsOf(i, j) == Concat([k \in 1..(j - i + 1) |-> fed[i + k - 1].events])
ToolUsesOf(i, j) == SelectSeq(EventsOf(i, j), LAMBDA e : e.type = "ToolUse")

\* lines i..j are a tool_use block start, N >= 1 input_json_delta fragments
\* and a content_block_stop
IsFragmentedToolUse(i, j) ==
    /\ i + 1 < j
    /\ IsToolStart(fed[i].line)
    /\ \A k \in (i + 1)..(j - 1) : IsInputJsonDelta(fed[k].line)
    /\ IsStop(fed[j].line)

\* C9: a tool invocation delivered as a content_block_start for a tool_use
\* block followed by N input_json_delta fragments and a content_block_stop
\* yields exactly one ToolUse event over the whole sequence, and its input is
\* the concatenation of the N fragments in order.
C9_FragmentsConcatenated ==
    \A i, j \in DOMAIN fed :
        IsFragmentedToolUse(i, j) =>
            /\ Len(ToolUsesOf(i, j)) = 1
            /\ ToolUsesOf(i, j)[1].name = fed[i].line.record.content_block.name
            /\ ToolUsesOf(i, j)[1].input =
                   Concat([k \in 1..(j - i - 1) |->
                               fed[i + k].line.record.delta.partial_json])

\* C10: a tool_use block whose input is present at content_block_start yields
\* exactly one ToolUse event at that record and no event at the following
\* content_block_stop; a content_block_stop arriving with no pending tool name
\* emits no event and leaves the accumulator unchanged.
C10_ImmediateToolUse ==
    \A i \in DOMAIN fed :
        /\ IsToolStart(fed[i].line) =>
              /\ Len(fed[i].events) = 1
              /\ fed[i].events[1].type = "ToolUse"
              /\ fed[i].events[1].name = fed[i].line.record.content_block.name
              /\ fed[i].events[1].input # <<>>
              /\ (i < Len(fed) /\ IsStop(fed[i + 1].line)) => fed[i + 1].events = <<>>
        /\ (IsStop(fed[i].line) /\ fed[i].before.current_tool_name = None) =>
              /\ fed[i].events = <<>>
              /\ fed[i].after = fed[i].before

\* a tool_use start with input was followed by its content_block_stop, and a
\* content_block_stop arrived while the accumulator held fragments
W_C10 ==
    /\ \E i \in DOMAIN fed :
          /\ i < Len(fed)
          /\ IsToolStart(fed[i].line)
          /\ fed[i].line.record.content_block.input = Some(JsonObject(<<>>))
          /\ IsStop(fed[i + 1].line)
    /\ \E j \in DOMAIN fed :
          /\ IsStop(fed[j].line)
          /\ fed[j].before.current_tool_input # <<>>


(***************************************************************************)
(* C11: a blank line, a line that is not JSON, and a record of an          *)
(* unrecognized or non-event-bearing kind (system, message_stop, unknown   *)
(* tag) decode to no event and leave the accumulator as it was, so the     *)
(* lines fed so far decode to the same events and the same parser state as *)
(* the same lines with the ignored ones removed.                           *)
(***************************************************************************)
IsIgnoredLine(line) ==
    \/ line.line \in {"blank", "invalid"}
    \/ /\ line.line = "json"
       /\ \/ line.record.type \in {"system", "message_stop"}
          \/ line.record.type \notin RecordTags

RECURSIVE parse_lines(_, _)
parse_lines(st, lines) ==
    IF lines = <<>> THEN [parser |-> st, events |-> <<>>]
    ELSE LET r1 == parse_line(st, Head(lines))
             r2 == parse_lines(r1.parser, Tail(lines))
         IN [parser |-> r2.parser, events |-> r1.events \o r2.events]

FedLines == [i \in DOMAIN fed |-> fed[i].line]
NotIgnored(line) == ~IsIgnoredLine(line)

C11_IgnoredLinesSkipped ==
    /\ \A i \in DOMAIN fed :
          IsIgnoredLine(fed[i].line) =>
              fed[i].events = <<>> /\ fed[i].after = fed[i].before
    /\ parse_lines(NewParser, SelectSeq(FedLines, NotIgnored))
           = [parser |-> parser, events |-> EventsOf(1, Len(fed))]

W_C11 ==
    \E i, j, k \in DOMAIN fed :
        /\ i < j /\ j < k
        /\ IsIgnoredLine(fed[i].line) /\ IsIgnoredLine(fed[j].line)
        /\ fed[i].line.line # fed[j].line.line
        /\ fed[i].before.current_tool_input # <<>>
        /\ fed[k].events # <<>>

(***************************************************************************)
(* C12: every text_delta record decodes to exactly one Text event carrying *)
(* its payload, and once the orchestrator has applied the events of a turn *)
(* whose lines so far are all text deltas, the streaming buffer is the     *)
(* text that one record carrying the concatenated payloads produces, and   *)
(* no entry was appended after the turn's user entry.                      *)
(***************************************************************************)
IsTextDelta(line) ==
    /\ line.line = "json"
    /\ line.record.type = "content_block_delta"
    /\ line.record.delta.type = "text_delta"

\* the lines read so far from the subprocess the orchestrator holds
HeldLines == SelectSeq(fed, LAMBDA f : claude_process = Some(f.pid))

Payloads(fs) == Concat([i \in DOMAIN fs |-> fs[i].line.record.delta.text])

RECURSIVE apply_events(_, _)
apply_events(w, events) ==
    IF events = <<>> THEN w
    ELSE apply_events(handle_claude_event(w, Head(events)), Tail(events))

\* the streaming buffer after one text_delta record carrying `text` is
\* decoded and applied at the start of a turn
OneRecordBuffer(text) ==
    apply_events([World EXCEPT !.streaming_buffer = <<>>],
                 parse_line(NewParser, Json(ContentBlockDelta(TextDelta(text)))).events)
        .streaming_buffer

NoClaudeEventPending == \A i \in DOMAIN bus : bus[i].type # "ClaudeEvent"

C12_SplitTextConcatenates ==
    /\ \A i \in DOMAIN fed :
          IsTextDelta(fed[i].line) =>
              fed[i].events = <<Text(fed[i].line.record.delta.text)>>
    /\ ( /\ claude_process # None
         /\ NoClaudeEventPending
         /\ \A i \in DOMAIN HeldLines : IsTextDelta(HeldLines[i].line) )
       => /\ streaming_buffer = OneRecordBuffer(Payloads(HeldLines))
          /\ streaming_buffer = Payloads(HeldLines)
          /\ messages # <<>>
          /\ messages[Len(messages)].role = "User"

W_C12 ==
    /\ claude_process # None
    /\ NoClaudeEventPending
    /\ Len(HeldLines) >= 2
    /\ \A i \in DOMAIN HeldLines : IsTextDelta(HeldLines[i].line)
    /\ HeldLines[1].line # HeldLines[2].line
    /\ streaming_buffer = Payloads(HeldLines)

(***************************************************************************)
(* C13: a record that carries usage (message level or delta level) decodes *)
(* to exactly one Usage event with its four counters; the totals plus the  *)
(* Usage events still in the bus are the component-wise sums of the usage  *)
(* of all records read since the start; applying a Usage event appends no  *)
(* entry; and no step (submit, /clear, turn end included) lowers a total.  *)
(***************************************************************************)
\* the usage member of a record, None if it has none
UsageOf(line) ==
    IF line.line # "json" THEN None
    ELSE IF line.record.type \in {"assistant", "message_start"}
         THEN line.record.message.usage
    ELSE IF line.record.type = "message_delta" THEN line.record.usage
    ELSE None

UsageEvents(events) == SelectSeq(events, LAMBDA ev : ev.type = "Usage")

Counters == {"input_tokens", "output_tokens", "cache_read_tokens", "cache_write_tokens"}

RECURSIVE SumTo(_, _, _)
SumTo(events, c, n) ==
    IF n = 0 THEN 0 ELSE events[n][c] + SumTo(events, c, n - 1)

SumOf(events, c) == SumTo(events, c, Len(events))

\* the counters of the usage records read so far, as the records carry them
ReadUsage ==
    LET withUsage == SelectSeq(fed, LAMBDA f : UsageOf(f.line) # None)
    IN [i \in DOMAIN withUsage |->
           LET u == UsageOf(withUsage[i].line)[1] IN
           [input_tokens |-> u.input_tokens,
            output_tokens |-> u.output_tokens,
            cache_read_tokens |-> u.cache_read_input_tokens,
            cache_write_tokens |-> u.cache_creation_input_tokens]]

PendingUsage ==
    LET evs == SelectSeq(bus, LAMBDA msg : msg.type = "ClaudeEvent")
    IN UsageEvents([i \in DOMAIN evs |-> evs[i].event])

UsageAccounted ==
    /\ \A i \in DOMAIN fed :
          UsageEvents(fed[i].events) =
              IF UsageOf(fed[i].line) # None
              THEN <<Usage(UsageOf(fed[i].line)[1])>> ELSE <<>>
    /\ \A c \in Counters :
          token_usage[c] + SumOf(PendingUsage, c) = SumOf(ReadUsage, c)

C13_UsageTotalsAccumulate ==
    /\ []UsageAccounted
    /\ [][ /\ \A c \in Counters : token_usage'[c] >= token_usage[c]
           /\ (RecvClaudeEvent /\ Head(bus).event.type = "Usage")
                 => messages' = messages /\ token_usage' # token_usage ]_vars

W_C13 ==
    /\ token_usage = [input_tokens |-> 11, output_tokens |-> 25,
                      cache_read_tokens |-> 3, cache_write_tokens |-> 9]
    /\ Cardinality(Spawned(procs)) = 2
    /\ Len(messages) = 1

(***************************************************************************)
(* C14: applying a ToolUse event while the streaming buffer is non-empty   *)
(* appends the buffer as an assistant text entry, empties the buffer, and  *)
(* appends the tool entry after it; with an empty buffer only the tool     *)
(* entry is appended.                                                      *)
(***************************************************************************)
C14_ProseBeforeToolCall ==
    [][ (RecvClaudeEvent /\ Head(bus).event.type = "ToolUse") =>
          LET ev == Head(bus).event
              tool == Entry("Tool", ToolUseContent(ev.name, ev.input))
          IN /\ streaming_buffer' = <<>>
             /\ messages' =
                   IF streaming_buffer # <<>>
                   THEN messages \o <<Entry("Assistant", TextContent(streaming_buffer)),
                                      tool>>
                   ELSE Append(messages, tool) ]_vars

W_C14 ==
    /\ streaming_buffer = <<>>
    /\ Len(messages) >= 3
    /\ messages[Len(messages)].role = "Tool"
    /\ messages[Len(messages) - 1] = Entry("Assistant", TextContent(<<"H", "i">>))

(***************************************************************************)
(* C15: applying a shell output event replaces, in place, the content of   *)
(* the most recently appended provisional shell entry by the command with  *)
(* that output, and applying a shell-finished event sets the exit code of  *)
(* the most recently appended shell entry that holds output, wherever in   *)
(* the transcript that entry is; the number of entries does not change,    *)
(* and without such an entry the transcript does not change.               *)
(***************************************************************************)
IsProvisionalShell(entry) ==
    /\ entry.role = "Bash"
    /\ entry.content.variant = "Text"
    /\ starts_with_prompt(entry.content.text)

IsShellWithOutput(entry) ==
    entry.role = "Bash" /\ entry.content.variant = "BashCommand"

\* the indexes of the entries that satisfy P
Where(P(_)) == {i \in DOMAIN messages : P(messages[i])}

Latest(S) == CHOOSE i \in S : \A j \in S : j <= i

C15_ShellResultsUpdateInPlace ==
    [][ /\ RecvBashOutput =>
             IF Where(IsProvisionalShell) = {} THEN messages' = messages
             ELSE LET i == Latest(Where(IsProvisionalShell)) IN
                  messages' = [messages EXCEPT ![i].content =
                      BashCommandContent(Tail(messages[i].content.text),
                                         Head(bus).output, 0)]
        /\ RecvBashFinished =>
             IF Where(IsShellWithOutput) = {} THEN messages' = messages
             ELSE LET i == Latest(Where(IsShellWithOutput)) IN
                  messages' = [messages EXCEPT ![i].content.exit_code =
                                                   Head(bus).exit_code] ]_vars

(***************************************************************************)
(* C16: entries are only appended, and an entry that is not a shell entry  *)
(* (user, assistant, system, tool) is never changed by a later step.       *)
(***************************************************************************)
C16_NonShellEntriesImmutable ==
    [][ /\ Len(messages') >= Len(messages)
        /\ \A i \in DOMAIN messages :
              messages[i].role # "Bash" => messages'[i] = messages[i] ]_vars

(***************************************************************************)
(* C17: a submit while Idle appends exactly one user entry with the        *)
(* message, creates one fresh running supervisor started with the current  *)
(* model and with --resume <id> if a resume id is pending, else with       *)
(* --continue if that flag is set, else with neither, writes the message   *)
(* to its stdin, holds it, sets busy, empties the streaming buffer and     *)
(* leaves the pending queue as it was.                                     *)
(***************************************************************************)
Has(args, a) == \E i \in DOMAIN args : args[i] = a
HasPair(args, a, b) ==
    \E i \in DOMAIN args : i < Len(args) /\ args[i] = a /\ args[i + 1] = b

C17_IdleSubmitStartsTurn ==
    [][ (Submit /\ ~claude_busy) =>
          /\ messages' = Append(messages, Entry("User", TextContent(NextMessage)))
          /\ Cardinality(NewProcs) = 1
          /\ \A p \in NewProcs :
                /\ claude_process' = Some(p)
                /\ procs'[p].state = "running" /\ ~procs'[p].aborted
                /\ procs'[p].reader = "loop" /\ procs'[p].nread = 0
                /\ procs'[p].stdin = Some(NextMessage)
                /\ HasPair(procs'[p].args, "--model", model)
                /\ IF resume_session # None
                   THEN /\ HasPair(procs'[p].args, "--resume", resume_session[1])
                        /\ ~Has(procs'[p].args, "--continue")
                   ELSE /\ ~Has(procs'[p].args, "--resume")
                        /\ Has(procs'[p].args, "--continue") <=> continue_session
          /\ claude_busy'
          /\ streaming_buffer' = <<>>
          /\ message_queue' = message_queue ]_vars

\* the third message was submitted while Idle with the second still queued,
\* after a first turn started with --resume
W_C17 ==
    /\ claude_busy
    /\ message_queue = <<UserMessage(2)>>
    /\ status_message = Some(<<"Queued (", "1", " pending)">>)
    /\ messages # <<>>
    /\ messages[Len(messages)] = Entry("User", TextContent(UserMessage(3)))
    /\ claude_process = Some(2)
    /\ Has(procs[1].args, "--resume")
    /\ Has(procs[2].args, "--continue")

(***************************************************************************)
(* C18: the first abort of a supervisor sets the aborted flag and kills    *)
(* the child; an abort of an already aborted supervisor changes nothing    *)
(* and issues no kill, so two aborts leave the state one abort leaves.     *)
(***************************************************************************)
C18_AbortIdempotent ==
    /\ [](\A p \in Spawned(procs) :
             procs[p].aborts >= 1 =>
                 /\ procs[p].aborted
                 /\ procs[p].state # "running"
                 /\ procs[p].kills = 1 + (IF procs[p].dropped THEN 1 ELSE 0))
    /\ [][ \A p \in Pids :
             SupervisorAbort(p) =>
                 IF procs[p].aborted
                 THEN procs' = [procs EXCEPT ![p].aborts = @ + 1]
                 ELSE procs' = [procs EXCEPT ![p].aborts = @ + 1,
                                             ![p].aborted = TRUE,
                                             ![p].kills = @ + 1,
                                             ![p].state = IF @ = "running"
                                                          THEN "killed" ELSE @] ]_vars

W_C18 ==
    \E p \in Spawned(procs) :
        /\ procs[p].aborts = 2
        /\ procs[p].kills = 1
        /\ procs[p].state = "killed"
        /\ ~procs[p].dropped

(***************************************************************************)
(* C19: a supervisor the orchestrator no longer holds has been dropped,    *)
(* Drop has called start_kill on its child, and the child is not running;  *)
(* this includes supervisors that were never aborted.                      *)
(***************************************************************************)
C19_DiscardedSupervisorKilled ==
    \A p \in Spawned(procs) :
        claude_process # Some(p) =>
            /\ procs[p].dropped
            /\ procs[p].kills >= 1
            /\ procs[p].state \in {"killed", "exited"}

\* a child that was running when its supervisor was dropped without abort
W_C19 ==
    \E p \in Spawned(procs) :
        /\ claude_process # Some(p)
        /\ ~procs[p].aborted
        /\ procs[p].aborts = 0
        /\ procs[p].kills = 1
        /\ procs[p].state = "killed"

(***************************************************************************)
(* C20: the bus never holds more than BusCapacity events, and the events   *)
(* a reader has sent are, in the order sent and each exactly once, the     *)
(* events the orchestrator has applied followed by the events in the bus.  *)
(***************************************************************************)
PendingText == [i \in DOMAIN bus |-> bus[i].event.text[1]]

C20_BusBoundedNoLoss ==
    /\ Len(bus) <= BusCapacity
    /\ \A p \in Spawned(procs) :
          streaming_buffer \o PendingText = [k \in 1..procs[p].nread |-> Tok(p, k)]

\* the reader filled the bus, waited, and sent again once an event was received
W_C20 ==
    /\ Len(bus) = BusCapacity
    /\ streaming_buffer # <<>>
    /\ \E p \in Spawned(procs) : procs[p].nread = BusCapacity + Len(streaming_buffer)

(***************************************************************************)
(* Properties of user envelopes (SpecParser)                               *)
(***************************************************************************)
\* C26: a user envelope that embeds content blocks is decoded like an
\* assistant envelope: each embedded block yields its event (one ToolResult
\* event per tool_result block), in block order.
C26_UserEnvelopeDecoded ==
    \A i \in DOMAIN fed :
        (fed[i].line.line = "json" /\ fed[i].line.record.type = "user") =>
            fed[i].events =
                parse_line(fed[i].before,
                           Json([fed[i].line.record
                                     EXCEPT !.type = "assistant"])).events

(***************************************************************************)
(* Order of application (SpecStream)                                       *)
(***************************************************************************)
\* the events decoded from the lines read so far, in the order read
ReadEvents == EventsOf(1, Len(fed))

\* the decoded events that wait in the bus, oldest first
PendingEvents ==
    LET evs == SelectSeq(bus, LAMBDA msg : msg.type = "ClaudeEvent")
    IN [i \in DOMAIN evs |-> evs[i].event]

\* the number of decoded events the orchestrator has applied
AppliedCount == Len(ReadEvents) - Len(PendingEvents)

\* the events in the bus are the events read last, in the order read, and a
\* turn-finished event is behind every decoded event
PendingInReadOrder ==
    /\ Len(PendingEvents) <= Len(ReadEvents)
    /\ PendingEvents = SubSeq(ReadEvents, AppliedCount + 1, Len(ReadEvents))
    /\ \A i, j \in DOMAIN bus :
          (bus[i].type = "ClaudeFinished" /\ bus[j].type = "ClaudeEvent") => j < i

\* C22: the events decoded from a subprocess's output are applied in the
\* order their lines were read (each applied event is the oldest read event
\* not applied yet), and the subprocess's turn-finished event is applied
\* after every event decoded in that turn.
C22_AppliedInReadOrder ==
    /\ []PendingInReadOrder
    /\ [][ /\ RecvClaudeEvent =>
                /\ AppliedCount < Len(ReadEvents)
                /\ World' = handle_claude_event([World EXCEPT !.bus = Tail(bus)],
                                                ReadEvents[AppliedCount + 1])
                /\ AppliedCount' = AppliedCount + 1
           /\ RecvClaudeFinished => AppliedCount = Len(ReadEvents) ]_vars

\* two text records were read and applied in that order, then the turn ended
W_C22 ==
    /\ ~claude_busy
    /\ \E i \in DOMAIN fed :
          /\ i + 1 \in DOMAIN fed
          /\ fed[i].pid = fed[i + 1].pid
          /\ fed[i].events = <<Text(<<"H">>)>>
          /\ fed[i + 1].events = <<Text(<<"i">>)>>
    /\ \E k \in DOMAIN messages :
          messages[k] = Entry("Assistant", TextContent(<<"H", "i">>))

(***************************************************************************)
(* Tool results and thinking (SpecBlocks)                                  *)
(***************************************************************************)
IsAssistantTextAt(ms, k) == k \in DOMAIN ms /\ IsAssistantText(ms[k])

\* C30: applying a ToolResult or Thinking event appends exactly one entry,
\* the event's own, and leaves the streaming buffer as it was; an assistant
\* text entry is appended only when a ToolUse event or a turn-finished event
\* is applied.
C30_ResultAndThinkingKeepBuffer ==
    [][ /\ (RecvClaudeEvent /\ Head(bus).event.type \in {"ToolResult", "Thinking"}) =>
            LET ev == Head(bus).event IN
            /\ streaming_buffer' = streaming_buffer
            /\ messages' =
                  Append(messages,
                         IF ev.type = "ToolResult"
                         THEN Entry("Tool", ToolResultContent(ev.name, ev.result))
                         ELSE Entry("Assistant", ThinkingContent(ev.text)))
        /\ (\E k \in DOMAIN messages' :
                k > Len(messages) /\ IsAssistantTextAt(messages', k)) =>
            \/ RecvClaudeFinished
            \/ RecvClaudeEvent /\ Head(bus).event.type = "ToolUse" ]_vars

\* text was streamed, then a thinking or tool result entry was appended while
\* the text is still in the buffer
W_C30 ==
    /\ streaming_buffer = <<"H">>
    /\ NoClaudeEventPending
    /\ messages # <<>>
    /\ messages[Len(messages)].content.variant \in {"ToolResult", "Thinking"}
    /\ \E i \in DOMAIN fed :
          /\ i + 1 \in DOMAIN fed
          /\ fed[i].pid = fed[i + 1].pid
          /\ fed[i].events = <<Text(<<"H">>)>>
          /\ fed[i + 1].events # <<>>
          /\ fed[i + 1].events[1].type \in {"ToolResult", "Thinking"}

(***************************************************************************)
(* Properties of the input line and voice input (SpecEditor)               *)
(***************************************************************************)
\* C28: applying a transcription result inserts the transcript into the
\* input line at the cursor position: the text before the cursor and the
\* text after the cursor are both kept, around the inserted text.
C28_TranscriptInsertedAtCursor ==
    [][ RecvVoiceTranscription =>
          input' = SubSeq(input, 1, cursor_position) \o Head(bus).text
                       \o SubSeq(input, cursor_position + 1, Len(input)) ]_vars

(***************************************************************************)
(* Progress of the orchestrator loop (SpecBacklog)                         *)
(***************************************************************************)
\* C25: every step of the orchestrator completes and the loop returns to
\* waiting for the next tick or bus event, also with a full bus and a
\* subprocess that has not exited: no step is suspended on a condition that
\* only the loop itself could resolve.  A step suspended in a send needs a
\* free slot of the bus, and only the loop's own recv frees one.
C25_StepsComplete == awaiting # None => Len(bus) < BusCapacity

(***************************************************************************)
(* Properties of the interrupt (SpecInterrupt)                             *)
(***************************************************************************)
\* C29: an interrupt request during an active turn clears the busy flag in
\* the same orchestrator step, without waiting for the subprocess to confirm
\* its termination: the step is not suspended until the process has exited.
C29_InterruptDoesNotWait ==
    [][ (InterruptKey /\ claude_busy /\ claude_process # None) =>
            ~claude_busy' /\ awaiting' = None ]_vars

(***************************************************************************)
(* Properties of a failing spawn (SpecSpawn)                               *)
(***************************************************************************)
\* C23: a failure to spawn the assistant subprocess during a submit, direct
\* or released from the queue, is returned as an error up to the caller of
\* the orchestrator loop: the step ends the loop with Err, starts no
\* subprocess, and nothing is started or changed afterwards (no retry).
C23_SpawnFailureReturned ==
    /\ [][ (SubmitSpawnFails \/ RecvFinishedSpawnFails) =>
              /\ run_result' = Some("Err")
              /\ Spawned(procs') = Spawned(procs) ]_vars
    /\ [][ run_result = Some("Err") =>
              /\ run_result' = run_result
              /\ Spawned(procs') = Spawned(procs)
              /\ messages' = messages
              /\ message_queue' = message_queue ]_vars

\* the spawn for a message released from the queue failed
W_C23 ==
    /\ run_result = Some("Err")
    /\ Cardinality(Spawned(procs)) = 1
    /\ Len(SelectSeq(messages, LAMBDA en : en.role = "User")) = 2

(***************************************************************************)
(* Properties of collaborator failures (SpecCollab)                        *)
(***************************************************************************)
\* C24: a collaborator failure (a failing shell command, a failing
\* transcription, a mailbox I/O failure on list, send, broadcast or drain)
\* never ends the orchestrator loop: the loop ends only on a quit request,
\* that is, never with an error.
C24_CollaboratorFailureNotFatal == run_result # Some("Err")

(***************************************************************************)
(* Properties of the mailbox (SpecMailbox)                                 *)
(***************************************************************************)
\* the messages the peer has written to the mailbox so far
PeerWritten == {PeerMessage(k) : k \in 1..peer.sent}

\* the message is a peer-message event in the bus or an entry of the transcript
IsDelivered(line) ==
    \/ \E i \in DOMAIN bus :
          bus[i].type = "SessionMessage" /\ bus[i].message = line.message
    \/ \E k \in DOMAIN messages :
          /\ messages[k].role = "System"
          /\ line.message \in Range(messages[k].content.text)

\* the message is still on its way: in the mailbox file, in the content the
\* peer is about to write back, or read by the poller and not sent yet
IsPending(line) ==
    \/ mailbox # None /\ line \in Range(mailbox[1])
    \/ peer.pc = "write" /\ line \in Range(peer.content)
    \/ line \in Range(poller.batch)

\* C27: every message a peer wrote to the session's mailbox is delivered to
\* the session at least once, by the poller or by draining the inbox, in
\* every interleaving of peer sends, poller cycles and drains: a written
\* message is delivered or still on its way, never gone.
C27_MailboxAtLeastOnce ==
    \A line \in PeerWritten : IsDelivered(line) \/ IsPending(line)

(***************************************************************************)
(* Properties of the producers on a closed bus (SpecShutdown)              *)
(***************************************************************************)
\* C21: a producer whose send on the bus fails because the consumer side is
\* closed terminates its loop and performs no further iteration or send:
\* no stdout reader sends again after a failed send, and the mailbox poller
\* takes no step (send, remove, next poll) after a failed send.
C21_ProducersStopOnClosedBus ==
    /\ \A p \in Pids : procs[p].send_errors <= 1
    /\ poller.steps_after_error = 0

(***************************************************************************)
(* C31: when a turn starts, the message written to the subprocess is the   *)
(* user message preceded by the command, output and exit code of every     *)
(* shell-command entry with recorded results among the last 5 entries of   *)
(* the conversation, oldest first, and it is the bare user message when    *)
(* none of those 5 entries is a shell-command entry.                       *)
(***************************************************************************)
\* the positions of the last 5 entries that hold a shell command's results
ShownShells(msgs) ==
    {i \in DOMAIN msgs : /\ i > Len(msgs) - 5
                         /\ msgs[i].content.variant = "BashCommand"}

\* command, output and exit code of the entries at positions `from` and up
RECURSIVE ShellBlocks(_, _)
ShellBlocks(msgs, from) ==
    IF from > Len(msgs) THEN <<>>
    ELSE LET c == msgs[from].content
             later == {i \in ShownShells(msgs) : i > from}
         IN IF from \in ShownShells(msgs)
            THEN <<"$ ">> \o c.command \o <<"\n">> \o c.output
                   \o <<"\n(exit code: ", ToString(c.exit_code), ")">>
                   \o (IF later = {} THEN <<>> ELSE <<"\n\n">>)
                   \o ShellBlocks(msgs, from + 1)
            ELSE ShellBlocks(msgs, from + 1)

\* what a turn for `message` is to be given, by the conversation `msgs`
ExpectedStdin(msgs, message) ==
    IF ShownShells(msgs) = {} THEN message
    ELSE <<"[Recent terminal activity]\n">> \o ShellBlocks(msgs, 1)
           \o <<"\n", "\n\n">> \o message

C31_ContextPrecedesMessage ==
    [][ \A p \in Pids :
          (procs[p].state = "unspawned" /\ procs'[p].state # "unspawned") =>
             /\ messages' # <<>>
             /\ messages'[Len(messages')].role = "User"
             /\ procs'[p].stdin =
                  Some(ExpectedStdin(messages',
                                     messages'[Len(messages')].content.text)) ]_vars

\* a second turn started after `false` and `ls` had results and the first
\* command `ls` had left the window: only the last two are in its message
W_C31 ==
    /\ Len(messages) = 6
    /\ messages[1].content.variant = "BashCommand"
    /\ claude_process = Some(2)
    /\ procs[2].stdin =
         Some(<<"[Recent terminal activity]\n",
                "$ ", "false", "\n", "output of ", "false", "\n(exit code: ", "1", ")",
                "\n\n",
                "$ ", "ls", "\n", "output of ", "ls", "\n(exit code: ", "0", ")",
                "\n", "\n\n", "M2">>)

(***************************************************************************)
(* C32: whenever a voice or transcription error event is applied, the      *)
(* input mode is Normal afterwards, whatever it was before, and the input  *)
(* text is unchanged.                                                      *)
(***************************************************************************)
C32_VoiceErrorRevertsMode ==
    [][ RecvVoiceError => input_mode' = "Normal" /\ input' = input ]_vars

\* a transcription error was applied while the next recording was running:
\* the mode is Normal again and the typed text is still there
W_C32 ==
    /\ input_mode = "Normal"
    /\ input = <<"a">>
    /\ voice.recording
    /\ status_message = Some(<<"Voice error: ", "Whisper API error">>)

(***************************************************************************)
(* C38: at most one audio capture thread is active at any time, for any    *)
(* interleaving of toggles, cancels and voice events: a capture thread is  *)
(* started only when no earlier one is still running.                      *)
(***************************************************************************)
ActiveCaptures == {t \in DOMAIN voice.threads : voice.threads[t] # "exited"}

C38_OneCaptureThread == Cardinality(ActiveCaptures) <= 1

(***************************************************************************)
(* C33: a turn-finished or turn-failed event sent by the reader of an      *)
(* earlier (interrupted or replaced) subprocess never ends a later turn:   *)
(* applied while a newer turn is active, it does not clear the busy flag,  *)
(* drop or kill the newer supervisor, or release a queued message.         *)
(***************************************************************************)
\* the turn of supervisor p is active and its reader has sent no terminal
\* event yet: a terminal event on the bus is from an earlier reader
ActiveUnterminated(p) ==
    /\ claude_busy
    /\ claude_process = Some(p)
    /\ procs[p].terminals = <<>>

C33_StaleTerminalIgnored ==
    [][ \A p \in Pids :
          ((RecvClaudeFinished \/ RecvClaudeError) /\ ActiveUnterminated(p)) =>
             /\ claude_busy'
             /\ claude_process' = Some(p)
             /\ procs'[p].state = procs[p].state
             /\ ~procs'[p].dropped
             /\ message_queue' = message_queue ]_vars

(***************************************************************************)
(* C34: stream events decoded from an interrupted subprocess and still in  *)
(* the bus are never applied to a later turn: after a new turn starts,     *)
(* its streaming buffer and the entries appended during it hold only       *)
(* output of the new subprocess.                                           *)
(***************************************************************************)
\* the text tokens written by subprocesses other than p
TokensOfOthers(p) == {Tok(q, k) : q \in Pids \ {p}, k \in 1..MaxLines}

\* the position of the User entry of the latest turn
LastUserEntry ==
    LET U == {i \in DOMAIN messages : messages[i].role = "User"}
    IN CHOOSE i \in U : \A j \in U : j <= i

C34_StaleStreamIgnored ==
    \A p \in Pids :
        (claude_busy /\ claude_process = Some(p)) =>
           /\ Range(streaming_buffer) \cap TokensOfOthers(p) = {}
           /\ \A i \in DOMAIN messages :
                 (i > LastUserEntry /\ messages[i].content.variant = "Text") =>
                    Range(messages[i].content.text) \cap TokensOfOthers(p) = {}

(***************************************************************************)
(* C35: with two shell commands outstanding, or with other entries         *)
(* appended between a command and its results, a shell output or           *)
(* shell-finished event modifies only the entry created for the command    *)
(* that produced it: never another command's entry, never a non-shell      *)
(* entry whose text begins with "$ ".                                      *)
(***************************************************************************)
\* the entries the step changes
ChangedEntries == {i \in DOMAIN messages : messages'[i] # messages[i]}

C35_ShellEventsReachOwnEntry ==
    [][ /\ RecvBashOutput =>
             \A i \in ChangedEntries :
                 /\ messages[i].role = "Bash"
                 /\ messages[i].content.variant = "Text"
                 /\ Head(bus).output =
                      execute_command(Tail(messages[i].content.text)).output
        /\ RecvBashFinished =>
             \A i \in ChangedEntries :
                 /\ messages[i].role = "Bash"
                 /\ messages[i].content.variant = "BashCommand"
                 /\ Head(bus).exit_code =
                      execute_command(messages[i].content.command).exit_code ]_vars

(***************************************************************************)
(* C36: if creating the supervisor or sending the message fails during a   *)
(* submit, the orchestrator is left Idle: the busy flag is false and no    *)
(* supervisor is held (so that a following submit would start a turn and   *)
(* not be queued).                                                         *)
(***************************************************************************)
C36_FailedSubmitLeavesIdle ==
    [][ (SubmitSpawnFails \/ SubmitWriteFails) =>
           ~claude_busy' /\ claude_process' = None ]_vars

(***************************************************************************)
(* C37: provided every started turn eventually ends with a turn-finished   *)
(* event and the user eventually stops submitting, every message placed    *)
(* in the pending queue is eventually submitted as a turn, and the queue   *)
(* eventually becomes and stays empty.                                     *)
(***************************************************************************)
\* the k-th message waits in the queue / was written to a subprocess
Queued(k) == UserMessage(k) \in Range(message_queue)
Started(k) == \E p \in Pids : procs[p].stdin = Some(UserMessage(k))

C37_QueueDrains ==
    /\ \A k \in 1..MaxKeys : Queued(k) ~> Started(k)
    /\ <>[](message_queue = <<>>)

\* two messages were queued behind the first, and all three have been
\* submitted as turns; nothing is left in the queue
W_C37 ==
    /\ message_queue = <<>>
    /\ status_message = Some(<<"0", " more queued">>)
    /\ \A k \in 1..3 : Started(k)

(***************************************************************************)
(* C39: over the process lifetime the resume session id is passed to at    *)
(* most one supervisor start, the first one; every later turn is started   *)
(* with the continue flag when it was set at startup and with neither      *)
(* token otherwise.                                                        *)
(***************************************************************************)
\* the supervisors started with --resume
Resumed == {p \in Spawned(procs) : Has(procs[p].args, "--resume")}

C39_ResumePassedOnce ==
    /\ Resumed \subseteq {1}
    /\ resume_session # None => Spawned(procs) = {}
    /\ \A p \in Spawned(procs) \ Resumed :
          Has(procs[p].args, "--continue") <=> continue_session
    /\ \A p \in Resumed :
          /\ HasPair(procs[p].args, "--resume", "sid")
          /\ ~Has(procs[p].args, "--continue")

\* started with --continue and --resume sid: the first turn resumed the
\* session, the second and the third were started with --continue only
W_C39 ==
    /\ Spawned(procs) = {1, 2, 3}
    /\ Resumed = {1}
    /\ continue_session
    /\ Has(procs[2].args, "--continue")
    /\ Has(procs[3].args, "--continue")

(***************************************************************************)
(* C40: for every ASCII input and cursor position c with                   *)
(* 0 <= c <= len(input), delete_word_backward(input, c) returns (s, p)     *)
(* where p = find_word_boundary_backward(input, c), p <= c, p is 0 or the  *)
(* byte before p is whitespace, and s is the input with exactly the bytes  *)
(* [p, c) removed.                                                         *)
(***************************************************************************)
C40_DeleteWordBackward ==
    word.result # None =>
        LET text == word.input
            c == word.cursor_position
            s == word.result[1].new_input
            p == word.result[1].new_pos
        IN /\ p = find_word_boundary_backward(text, c)
           /\ p <= c
           /\ p = 0 \/ text[p] \in {" ", "\t", "\n", "\f", "\r"}
           /\ Len(s) = Len(text) - (c - p)
           /\ \A i \in 1..p : s[i] = text[i]
           /\ \A i \in (p + 1)..Len(s) : s[i] = text[i + (c - p)]

\* "a -a" with the cursor at the end: the word "-a" is removed and the
\* cursor is after the space
W_C40 ==
    /\ word.input = <<"a", " ", "-", "a">>
    /\ word.cursor_position = 4
    /\ word.result = Some([new_input |-> <<"a", " ">>, new_pos |-> 2])

====
